---- MODULE Spec2Model ----
(***************************************************************************)
(* A model of YouStats: the ChannelAnalyzer harvesting pipeline            *)
(* (src/src/youstats/channel_analyzer.py) and the coordinator that runs    *)
(* two harvests on a thread pool (src/src/youstats/youstats_window.py).    *)
(*                                                                         *)
(* Scraped texts are sequences of one-character strings, so that the       *)
(* normalizers (_convert_subs_or_videos, _format_views, _convert_date) are *)
(* computed character by character as the Python code computes them.       *)
(* A Python call that may raise is modelled by an operator returning       *)
(* either [ok |-> TRUE, val |-> v] or [ok |-> FALSE, err |-> <exception>]. *)
(***************************************************************************)
EXTENDS Integers, Sequences, FiniteSets, TLC

(***************************************************************************)
(* Bounds of the model.                                                    *)
(***************************************************************************)
\* the largest number of videos a channel's videos page can render
MaxLinks == 2

(***************************************************************************)
(* Python string primitives on character sequences.                        *)
(***************************************************************************)
DigitChars == <<"0", "1", "2", "3", "4", "5", "6", "7", "8", "9">>

IsDigit(c) == \E k \in 1..10 : DigitChars[k] = c

DigitVal(c) == (CHOOSE k \in 1..10 : DigitChars[k] = c) - 1

Ok(v) == [ok |-> TRUE, val |-> v]

Raise(e) == [ok |-> FALSE, err |-> e]

\* str.replace(c, '') for a single character c
RemoveChar(s, c) == SelectSeq(s, LAMBDA x : x # c)

\* c in s, for a single character c
HasChar(s, c) == \E k \in 1..Len(s) : s[k] = c

\* s.startswith(p) at position k (1-based)
MatchAt(s, p, k) ==
    /\ k + Len(p) - 1 <= Len(s)
    /\ \A j \in 1..Len(p) : s[k + j - 1] = p[j]

\* p in s
Contains(s, p) == \E k \in 1..Len(s) : MatchAt(s, p, k)

\* s.replace(p, ''): every non-overlapping occurrence, left to right
RECURSIVE RemoveAll(_, _)
RemoveAll(s, p) ==
    IF s = <<>> THEN <<>>
    ELSE IF MatchAt(s, p, 1) THEN RemoveAll(SubSeq(s, Len(p) + 1, Len(s)), p)
    ELSE <<Head(s)>> \o RemoveAll(Tail(s), p)

RECURSIVE LStrip(_)
LStrip(s) == IF s # <<>> /\ Head(s) = " " THEN LStrip(Tail(s)) ELSE s

RECURSIVE RStrip(_)
RStrip(s) ==
    IF s # <<>> /\ s[Len(s)] = " " THEN RStrip(SubSeq(s, 1, Len(s) - 1)) ELSE s

\* s.strip()
Strip(s) == RStrip(LStrip(s))

\* the characters of s before its first blank
RECURSIVE UpToBlank(_)
UpToBlank(s) ==
    IF s = <<>> \/ Head(s) = " " THEN <<>>
    ELSE <<Head(s)>> \o UpToBlank(Tail(s))

\* s.split()[0]: the first whitespace-separated word; IndexError when there is none
FirstWord(s) ==
    IF LStrip(s) = <<>> THEN Raise("IndexError") ELSE Ok(UpToBlank(LStrip(s)))

RECURSIVE DigitsValue(_)
DigitsValue(s) ==
    IF s = <<>> THEN 0
    ELSE 10 * DigitsValue(SubSeq(s, 1, Len(s) - 1)) + DigitVal(s[Len(s)])

\* int(s) for a decimal text: surrounding blanks are ignored, anything but a
\* non-empty run of digits is a ValueError
PyInt(s) ==
    LET t == Strip(s) IN
    IF t # <<>> /\ \A k \in 1..Len(t) : IsDigit(t[k])
    THEN Ok(DigitsValue(t))
    ELSE Raise("ValueError")

RECURSIVE Pow10(_)
Pow10(n) == IF n = 0 THEN 1 ELSE 10 * Pow10(n - 1)

\* the decimal digits of n, left-padded with zeros to the given width
RECURSIVE ZeroPad(_, _)
ZeroPad(n, width) ==
    IF width = 0 /\ n = 0 THEN <<>>
    ELSE ZeroPad(n \div 10, IF width = 0 THEN 0 ELSE width - 1)
             \o <<DigitChars[(n % 10) + 1]>>

(***************************************************************************)
(* The normalizers of ChannelAnalyzer.                                     *)
(***************************************************************************)
\* a scaling that divides the threshold once per digit, the first included
ScaleByDigits_every_digit(digits, start) ==
    LET n == PyInt(digits)
        num_digits == Len(digits)
    IN
    IF ~n.ok THEN n
    ELSE IF Pow10(num_digits) <= start
    THEN Ok(n.val * (start \div Pow10(num_digits)))
    ELSE Ok(n.val \div (Pow10(num_digits) \div start))

\* final_value = int(int(digits) * threshold), threshold being start divided
\* by 10 once per digit after the first; while threshold >= 1 the product is
\* exact, below 1 it is a fraction 1/10^j and int() truncates the product
ScaleByDigits(digits, start) ==
    LET n == PyInt(digits)
        num_digits == Len(digits) - 1
    IN
    IF ~n.ok THEN n
    ELSE IF Pow10(num_digits) <= start
    THEN Ok(n.val * (start \div Pow10(num_digits)))
    ELSE Ok(n.val \div (Pow10(num_digits) \div start))

\* the threshold the K branch starts from
K_THRESHOLD == 100000

\* the threshold the M branch starts from
M_THRESHOLD == 1000000

_convert_subs_or_videos(value) ==
    LET value_no_point == RemoveChar(value, ".") IN
    IF HasChar(value_no_point, "K")
    THEN ScaleByDigits(RemoveChar(value_no_point, "K"), K_THRESHOLD)
    ELSE IF HasChar(value_no_point, "M")
    THEN ScaleByDigits(RemoveChar(value_no_point, "M"), M_THRESHOLD)
    ELSE LET w == FirstWord(value_no_point) IN
         IF ~w.ok THEN w ELSE PyInt(w.val)

\* a conversion that leaves the thousand separators in the text
_format_views_keeps_commas(views) ==
    LET w == FirstWord(views) IN
    IF ~w.ok THEN w ELSE PyInt(w.val)

\* int(views.split()[0].replace(',', ''))
_format_views(views) ==
    LET w == FirstWord(views) IN
    IF ~w.ok THEN w ELSE PyInt(RemoveChar(w.val, ","))

UpperChars == <<"A", "D", "F", "J", "M", "N", "O", "S">>

LowerChars == <<"a", "d", "f", "j", "m", "n", "o", "s">>

\* the month abbreviations start with one of eight letters; the other
\* letters of the texts are lower case already
Lower(c) ==
    IF \E k \in 1..Len(UpperChars) : UpperChars[k] = c
    THEN LowerChars[CHOOSE k \in 1..Len(UpperChars) : UpperChars[k] = c]
    ELSE c

\* %b: the abbreviated month names, matched without regard to case
MonthAbbr ==
    << <<"j", "a", "n">>, <<"f", "e", "b">>, <<"m", "a", "r">>,
       <<"a", "p", "r">>, <<"m", "a", "y">>, <<"j", "u", "n">>,
       <<"j", "u", "l">>, <<"a", "u", "g">>, <<"s", "e", "p">>,
       <<"o", "c", "t">>, <<"n", "o", "v">>, <<"d", "e", "c">> >>

IsLeap(y) == (y % 4 = 0 /\ y % 100 # 0) \/ y % 400 = 0

DaysInMonth(m, y) ==
    IF m = 2 THEN (IF IsLeap(y) THEN 29 ELSE 28)
    ELSE IF m \in {4, 6, 9, 11} THEN 30 ELSE 31

\* the characters of s before its first comma
RECURSIVE UpToComma(_)
UpToComma(s) ==
    IF s = <<>> \/ Head(s) = "," THEN <<>>
    ELSE <<Head(s)>> \o UpToComma(Tail(s))

\* datetime.strptime(s, '%b %d, %Y'): month name, blanks, a day of one or two
\* digits, a comma, blanks, a year of four digits and nothing more; then the
\* date must exist in the calendar
strptime(s) ==
    LET mon  == [k \in 1..3 |-> Lower(s[k])]
        rest == SubSeq(s, 4, Len(s))
        r2   == LStrip(rest)
        dt   == UpToComma(r2)
        r3   == SubSeq(r2, Len(dt) + 2, Len(r2))
        yt   == LStrip(r3)
    IN
    IF \/ Len(s) < 3
       \/ ~\E m \in 1..12 : MonthAbbr[m] = mon
       \/ r2 = rest
       \/ Len(dt) \notin {1, 2}
       \/ \E k \in 1..Len(dt) : ~IsDigit(dt[k])
       \/ Len(r2) <= Len(dt)
       \/ yt = r3
       \/ Len(yt) # 4
       \/ \E k \in 1..Len(yt) : ~IsDigit(yt[k])
    THEN Raise("ValueError")
    ELSE LET m == CHOOSE mm \in 1..12 : MonthAbbr[mm] = mon
             d == DigitsValue(dt)
             y == DigitsValue(yt)
         IN IF d < 1 \/ d > 31 \/ y < 1 \/ d > DaysInMonth(m, y)
            THEN Raise("ValueError")
            ELSE Ok([month |-> m, day |-> d, year |-> y])

\* strftime('%m/%d/%Y'): month and day zero-padded to two digits; the C
\* library of the Linux build writes the year without padding
strftime(dt) ==
    ZeroPad(dt.month, 2) \o <<"/">> \o ZeroPad(dt.day, 2) \o <<"/">>
        \o ZeroPad(dt.year, 0)

Premiered == <<"P", "r", "e", "m", "i", "e", "r", "e", "d">>

Joined == <<"J", "o", "i", "n", "e", "d">>

\* a conversion that knows the prefix of premieres only
_convert_date_premiered_only(date) ==
    LET d == IF Contains(date, Premiered)
             THEN Strip(RemoveAll(date, Premiered))
             ELSE date
        str_to_datetime == strptime(d)
    IN IF ~str_to_datetime.ok THEN str_to_datetime
       ELSE Ok(strftime(str_to_datetime.val))

\* the prefixes are removed and the rest stripped, then strptime and strftime
_convert_date(date) ==
    LET d == IF Contains(date, Premiered) \/ Contains(date, Joined)
             THEN Strip(RemoveAll(RemoveAll(date, Premiered), Joined))
             ELSE date
        str_to_datetime == strptime(d)
    IN IF ~str_to_datetime.ok THEN str_to_datetime
       ELSE Ok(strftime(str_to_datetime.val))

(***************************************************************************)
(* The web pages the driver reads.  What a page holds is a function of its *)
(* URL; whether an element is there when the code looks for it is chosen   *)
(* by the environment at each read.                                        *)
(***************************************************************************)
SITE == "https://www.youtube.com"

\* Python's None, where a channel name is expected
NONE == "<None>"

Channels == {"@a", "@b"}

\* the arguments analyze_channels is called with
PivotNames == {NONE, "", "@a"}

TargetNames == {NONE, "", "@b"}

Tasks == {1, 2}

ProfileUrl(c) == SITE \o "/" \o c

VideosUrl(c) == SITE \o "/" \o c \o "/videos"

WatchUrl(c, k) == SITE \o "/watch?v=" \o c \o "-" \o ToString(k)

\* the channel whose profile or videos page the URL is
ChannelOfPage(u) ==
    IF \E c \in Channels : u \in {ProfileUrl(c), VideosUrl(c)}
    THEN CHOOSE c \in Channels : u \in {ProfileUrl(c), VideosUrl(c)}
    ELSE NONE

VideoIds == Channels \X (1..(MaxLinks + 1))

\* the video (channel, number) a watch link belongs to
VideoOfLink(u) == CHOOSE v \in VideoIds : WatchUrl(v[1], v[2]) = u

ChannelOfLink(u) == VideoOfLink(u)[1]

\* header texts: the well-formed ones and malformed ones the site also shows
SubsTexts ==
    { <<"2", ".", "3", "7", "K">>,
      <<"2", ".", "3", "7", "K", " ", "s", "u", "b", "s">> }

VideoCountTexts == { <<"2", "3", "5">> }

Nov27_2021 == <<"N", "o", "v", " ", "2", "7", ",", " ", "2", "0", "2", "1">>

Jan5_2022 == <<"J", "a", "n", " ", "5", ",", " ", "2", "0", "2", "2">>

StreamedLive == <<"S", "t", "r", "e", "a", "m", "e", "d", " ", "l", "i", "v", "e", " ", "o", "n", " ">>

JoinTexts == { Joined \o <<" ">> \o Nov27_2021, Nov27_2021 \o <<" ">> }

ViewsSuffix == <<" ", "v", "i", "e", "w", "s">>

NoViews == <<"N", "o">> \o ViewsSuffix

TotalViewsTexts == { <<"3", ",", "1", "3", "0">> \o ViewsSuffix, NoViews }

\* what a video's page shows: the date alternates between two years and the
\* views text is the grouped number, or the malformed variants of either
VideoDateTexts(k) ==
    { IF k % 2 = 1 THEN Premiered \o <<" ">> \o Jan5_2022 ELSE Nov27_2021,
      StreamedLive \o Jan5_2022 }

VideoViewsTexts(k) ==
    { IF k % 2 = 1 THEN <<"3", ",", "1", "3", "0">> \o ViewsSuffix
                   ELSE <<"1", "2">> \o ViewsSuffix,
      NoViews }

(***************************************************************************)
(* pandas: DataFrame(list of dicts), DataFrame.describe(), and the column  *)
(* operations _extract_years_of_activity uses.                             *)
(***************************************************************************)
None == [kind |-> "None"]

\* an attribute the instance __dict__ does not hold
Unset == [kind |-> "unset"]

GeneralColumns ==
    <<"header_name", "subscribers_num", "videos_num", "join_date", "total_views">>

VideoColumns == <<"title", "views", "date", "description", "link">>

\* pd.DataFrame(records): the columns are the keys of the dicts (none for an
\* empty list), the index is the RangeIndex 0..n-1
DataFrame(records, columns) ==
    [kind    |-> "DataFrame",
     columns |-> IF records = <<>> THEN <<>> ELSE columns,
     index   |-> [k \in 1..Len(records) |-> k - 1],
     rows    |-> records]

HasColumn(df, name) == \E k \in 1..Len(df.columns) : df.columns[k] = name

RECURSIVE SumViews(_)
SumViews(rows) ==
    IF rows = <<>> THEN 0 ELSE Head(rows).views + SumViews(Tail(rows))

\* df.describe(): ValueError for a frame without columns; otherwise the summary
\* of the numeric column (views): count, min, max, and the sum the mean is
\* computed from
describe(df) ==
    IF df.columns = <<>> THEN Raise("ValueError")
    ELSE Ok([kind  |-> "DataFrame",
             of    |-> "views",
             count |-> Len(df.rows),
             sum   |-> SumViews(df.rows),
             min   |-> CHOOSE m \in {df.rows[k].views : k \in 1..Len(df.rows)} :
                          \A k \in 1..Len(df.rows) : m <= df.rows[k].views,
             max   |-> CHOOSE m \in {df.rows[k].views : k \in 1..Len(df.rows)} :
                          \A k \in 1..Len(df.rows) : m >= df.rows[k].views])

\* character order of the characters of a date text
OrdChars == <<"/", "0", "1", "2", "3", "4", "5", "6", "7", "8", "9">>

Ord(c) == CHOOSE k \in 1..Len(OrdChars) : OrdChars[k] = c

\* a < b for Python strings
RECURSIVE StrLess(_, _)
StrLess(a, b) ==
    IF b = <<>> THEN FALSE
    ELSE IF a = <<>> THEN TRUE
    ELSE IF Head(a) # Head(b) THEN Ord(Head(a)) < Ord(Head(b))
    ELSE StrLess(Tail(a), Tail(b))

\* sorted(list(S))
RECURSIVE Sorted(_)
Sorted(S) ==
    IF S = {} THEN <<>>
    ELSE LET m == CHOOSE x \in S : \A y \in S \ {x} : StrLess(x, y)
         IN <<m>> \o Sorted(S \ {m})

\* s[-4:]
Last4(s) == SubSeq(s, IF Len(s) > 4 THEN Len(s) - 3 ELSE 1, Len(s))

\* df['date'].str[-4:].unique(), sorted
YearsOf(df) == Sorted({Last4(df.rows[k].date) : k \in 1..Len(df.rows)})

(***************************************************************************)
(* The aggregations of DataVisualizerPosts and DataVisualizerViews, and    *)
(* find_common_years.  A dict is the sequence of its items, in insertion   *)
(* order.                                                                  *)
(***************************************************************************)
Item(key, value) == [key |-> key, value |-> value]

\* key in d
DictHas(d, key) == \E k \in 1..Len(d) : d[k].key = key

\* d[key], for a key of d
DictGet(d, key) == d[CHOOSE k \in 1..Len(d) : d[k].key = key].value

\* d[key] = value: the value of a key of d is replaced where it stands, a new
\* key is added at the end
DictSet(d, key, value) ==
    IF DictHas(d, key)
    THEN [k \in 1..Len(d) |-> IF d[k].key = key THEN Item(key, value) ELSE d[k]]
    ELSE Append(d, Item(key, value))

\* list(d.keys())
DictKeys(d) == [k \in 1..Len(d) |-> d[k].key]

\* list(d.values())
DictValues(d) == [k \in 1..Len(d) |-> d[k].value]

MONTHS_MAPPING ==
    << Item(<<"0", "1">>, "January"),   Item(<<"0", "2">>, "February"),
       Item(<<"0", "3">>, "March"),     Item(<<"0", "4">>, "April"),
       Item(<<"0", "5">>, "May"),       Item(<<"0", "6">>, "June"),
       Item(<<"0", "7">>, "July"),      Item(<<"0", "8">>, "August"),
       Item(<<"0", "9">>, "September"), Item(<<"1", "0">>, "October"),
       Item(<<"1", "1">>, "November"),  Item(<<"1", "2">>, "December") >>

\* a lookup that reads the two characters after the first slash, as for a
\* date written day first
MonthOf_day_first(date) ==
    LET prefix == SubSeq(date, 4, IF Len(date) < 5 THEN Len(date) ELSE 5) IN
    IF DictHas(MONTHS_MAPPING, prefix) THEN DictGet(MONTHS_MAPPING, prefix)
    ELSE NONE

\* MONTHS_MAPPING.get(date[0:2]): None for a prefix that is not a key
MonthOf(date) ==
    LET prefix == SubSeq(date, 1, IF Len(date) < 2 THEN Len(date) ELSE 2) IN
    IF DictHas(MONTHS_MAPPING, prefix) THEN DictGet(MONTHS_MAPPING, prefix)
    ELSE NONE

\* a year dict that is given the months January to November only
ZeroMonths_without_december ==
    [k \in 1..(Len(MONTHS_MAPPING) - 1) |-> Item(MONTHS_MAPPING[k].value, 0)]

\* {month: 0 for month in MONTHS_MAPPING.values()}
ZeroMonths ==
    [k \in 1..Len(MONTHS_MAPPING) |-> Item(MONTHS_MAPPING[k].value, 0)]

\* a loop body that assigns the amount to the month's entry (= for +=)
Accumulate_assigns(data, date, amount) ==
    LET year == Last4(date)
        month == MonthOf(date)
        entered == IF DictHas(data, year) THEN data
                   ELSE DictSet(data, year, ZeroMonths)
        months == DictGet(entered, year)
    IN IF ~DictHas(months, month) THEN Raise("KeyError")
       ELSE Ok(DictSet(entered, year, DictSet(months, month, amount)))

\* one pass of the loop of either aggregation: the year is entered with its
\* twelve months on first sight, then amount is added to the month's entry;
\* a month of None is not a key of the year's dict
Accumulate(data, date, amount) ==
    LET year == Last4(date)
        month == MonthOf(date)
        entered == IF DictHas(data, year) THEN data
                   ELSE DictSet(data, year, ZeroMonths)
        months == DictGet(entered, year)
    IN IF ~DictHas(months, month) THEN Raise("KeyError")
       ELSE Ok(DictSet(entered, year,
                       DictSet(months, month, DictGet(months, month) + amount)))

\* the for loop of _get_posting_per_year over the dates left
RECURSIVE PostingLoop(_, _)
PostingLoop(yearly_data, posting_dates) ==
    IF posting_dates = <<>> THEN Ok(yearly_data)
    ELSE LET step == Accumulate(yearly_data, Head(posting_dates), 1) IN
         IF ~step.ok THEN step
         ELSE PostingLoop(step.val, Tail(posting_dates))

_get_posting_per_year(posting_dates) == PostingLoop(<<>>, posting_dates)

\* the for loop of _get_views_per_year from position i on; iloc past the
\* end of the dates raises IndexError
RECURSIVE ViewsLoop(_, _, _, _)
ViewsLoop(accumulated_views, views_data, posting_data, i) ==
    IF i > Len(views_data) THEN Ok(accumulated_views)
    ELSE IF i > Len(posting_data) THEN Raise("IndexError")
    ELSE LET step == Accumulate(accumulated_views, posting_data[i],
                                views_data[i]) IN
         IF ~step.ok THEN step
         ELSE ViewsLoop(step.val, views_data, posting_data, i + 1)

_get_views_per_year(views_data, posting_data) ==
    ViewsLoop(<<>>, views_data, posting_data, 1)

\* set(years)
SetOf(years) == {years[k] : k \in 1..Len(years)}

\* a find_common_years that keeps the pivot's years found in the target's
\* list as they stand, without building a set and sorting it
find_common_years_unsorted(yc_years, tc_years) ==
    SelectSeq(yc_years, LAMBDA y : y \in SetOf(tc_years))

\* list(set(yc_years) & set(tc_years)), sorted
find_common_years(yc_years, tc_years) ==
    Sorted(SetOf(yc_years) \cap SetOf(tc_years))

(***************************************************************************)
(* State.  A task i is the i-th item executor.map submits: task 1 harvests *)
(* the pivot channel, task 2 the targeted one; analyzer i is the           *)
(* ChannelAnalyzer task i constructs.                                      *)
(***************************************************************************)
VARIABLES
    pivot_channel_name,     \* the arguments of analyze_channels
    targeted_channel_name,
    main_pc,                \* where the caller of analyze_channels is
    main_exc,               \* the exception analyze_channels raises
    analyzer_objects,       \* the results collected so far, as task numbers
    future,                 \* the state of each task's future
    pc,                     \* where each task is in analyze_channel
    exc,                    \* the exception propagating in each task
    _channel_name,
    url,
    _general_channel_info,
    _links_of_all_videos,
    _all_videos_details,
    years_of_activity,
    instance_attrs,         \* the dataframe attributes set on each instance
    class_attrs,            \* the dataframe attributes of class ChannelAnalyzer
    driver,                 \* each analyzer's browser session
    height,                 \* _scroll's local
    link_idx,               \* how many links _find_videos_info has visited
    started,                \* history: the steps each harvest_data has called
    returned,               \* history: the steps that returned normally
    caught,                 \* history: the exceptions the except clauses of
                            \* _get_general_info, _find_videos_info and
                            \* _update_dataframes have handled
    completion,             \* history: the tasks in the order their futures
                            \* completed
    window,                 \* the analyzers and year lists of YouStatsWindow
    menus,                  \* its six year dropdowns
    win_exc,                \* the last exception that left a handler of the
                            \* window or a property setter, and which one
    error_message,          \* the title of the last error pop-up
    excel,                  \* the workbooks save_channel_details has written
    plotted,                \* the data of the last figure
    call,                   \* a call of a static method: name and arguments
    result                  \* what the call returned or raised

\* the state of the window and of what its handlers produce
windowVars == <<window, menus, win_exc, error_message, excel, plotted>>

callVars == <<call, result>>

vars ==
    <<pivot_channel_name, targeted_channel_name, main_pc, main_exc,
      analyzer_objects, future, pc, exc, _channel_name, url,
      _general_channel_info, _links_of_all_videos, _all_videos_details,
      years_of_activity, instance_attrs, class_attrs, driver, height, link_idx,
      started, returned, caught, completion, windowVars, callVars>>

\* everything but the call of a static method
analysisVars ==
    <<pivot_channel_name, targeted_channel_name, main_pc, main_exc,
      analyzer_objects, future, pc, exc, _channel_name, url,
      _general_channel_info, _links_of_all_videos, _all_videos_details,
      years_of_activity, instance_attrs, class_attrs, driver, height, link_idx,
      started, returned, caught, completion, windowVars>>

mainVars == <<pivot_channel_name, targeted_channel_name, main_pc, main_exc,
              analyzer_objects, windowVars, callVars>>

listVars == <<_general_channel_info, _links_of_all_videos, _all_videos_details>>

NoExc == [type |-> "none", step |-> "", source |-> ""]

\* the name task i is given: channel_names[i]
channel_names == <<pivot_channel_name, targeted_channel_name>>

\* self.<name> for one of the three dataframe attributes: the instance's own
\* value when it has been assigned, else the class attribute
SelfAttr(i, name) ==
    IF instance_attrs[i][name].kind = "unset" THEN class_attrs[name]
    ELSE instance_attrs[i][name]

DISABLED_OPTION_MESSAGE == "Waiting for data"

\* the six year dropdowns of the window
MenuNames ==
    {"yc_posts", "yc_views", "tc_posts", "tc_views", "common_posts",
     "common_views"}

\* no figure has been drawn
NoFigure == [kind |-> "none"]

\* no static method is being called
NoCall == [fn |-> "none"]

NoResult == [ok |-> FALSE, err |-> "pending"]

\* YouStatsWindow.__init__: no analyzers, the year attributes and the
\* dropdown variables hold the waiting message, the dropdowns are disabled
\* and were given no values
WindowConstructed ==
    /\ window = [_yc_analyze          |-> 0,
                 _tc_analyze          |-> 0,
                 yc_posting_years     |-> DISABLED_OPTION_MESSAGE,
                 yc_views_years       |-> DISABLED_OPTION_MESSAGE,
                 tc_posting_years     |-> DISABLED_OPTION_MESSAGE,
                 tc_views_years       |-> DISABLED_OPTION_MESSAGE,
                 common_posting_years |-> DISABLED_OPTION_MESSAGE,
                 common_views_years   |-> DISABLED_OPTION_MESSAGE]
    /\ menus = [m \in MenuNames |->
                  [var    |-> DISABLED_OPTION_MESSAGE,
                   state  |-> "disabled",
                   values |-> <<"CTkOptionMenu">>]]
    /\ win_exc = [handler |-> "", type |-> "none"]
    /\ error_message = ""
    /\ excel = [i \in Tasks |-> <<>>]
    /\ plotted = NoFigure

\* analyze_channels has not been called: no task, no analyzer, no browser
NothingAnalyzed ==
    /\ main_pc = "start"
    /\ main_exc = "none"
    /\ analyzer_objects = <<>>
    /\ future = [i \in Tasks |-> "none"]
    /\ pc = [i \in Tasks |-> "idle"]
    /\ exc = [i \in Tasks |-> NoExc]
    /\ _channel_name = [i \in Tasks |-> NONE]
    /\ url = [i \in Tasks |-> ""]
    /\ _general_channel_info = [i \in Tasks |-> <<>>]
    /\ _links_of_all_videos = [i \in Tasks |-> <<>>]
    /\ _all_videos_details = [i \in Tasks |-> <<>>]
    /\ years_of_activity = [i \in Tasks |-> <<>>]
    /\ instance_attrs = [i \in Tasks |->
            [_general_info_dataframe    |-> Unset,
             _videos_info_dataframe     |-> Unset,
             _videos_statistic_dataframe |-> Unset]]
    /\ class_attrs = [_general_info_dataframe    |-> None,
                      _videos_info_dataframe     |-> None,
                      _videos_statistic_dataframe |-> None]
    /\ driver = [i \in Tasks |-> [session |-> "none", page |-> ""]]
    /\ height = [i \in Tasks |-> 0]
    /\ link_idx = [i \in Tasks |-> 0]
    /\ started = [i \in Tasks |-> <<>>]
    /\ returned = [i \in Tasks |-> <<>>]
    /\ caught = [i \in Tasks |-> <<>>]
    /\ completion = <<>>

Init ==
    /\ pivot_channel_name \in PivotNames
    /\ targeted_channel_name \in TargetNames
    /\ NothingAnalyzed
    /\ WindowConstructed
    /\ call = NoCall
    /\ result = NoResult

(***************************************************************************)
(* analyze_channels and the thread pool.                                   *)
(***************************************************************************)
\* a check that looks at the pivot name only
NamesMissing_pivot_only(pivot, targeted) == pivot \in {NONE, ""}

\* not pivot_channel_name or not targeted_channel_name
NamesMissing(pivot, targeted) ==
    pivot \in {NONE, ""} \/ targeted \in {NONE, ""}

\* the check, and executor.map submitting one task per channel name
analyze_channels ==
    /\ main_pc = "start"
    /\ IF NamesMissing(pivot_channel_name, targeted_channel_name)
       THEN /\ main_pc' = "raised"
            /\ main_exc' = "MissingChannelNamesError"
            /\ UNCHANGED <<future, pc>>
       ELSE /\ main_pc' = "map"
            /\ main_exc' = "none"
            /\ future' = [i \in Tasks |-> "pending"]
            /\ pc' = [i \in Tasks |-> "analyze_channel"]
    /\ UNCHANGED <<pivot_channel_name, targeted_channel_name, analyzer_objects,
                   exc, _channel_name, url, listVars, years_of_activity,
                   instance_attrs, class_attrs, driver, height, link_idx,
                   started, returned, caught, completion, windowVars,
                   callVars>>

\* results taken in the order the futures complete, as futures.as_completed
\* would give them
NextResult_as_completed(collected, fut) ==
    LET ready == {k \in Tasks :
                    /\ fut[k] \in {"finished", "failed"}
                    /\ \A j \in 1..Len(collected) : collected[j] # k}
    IN IF ready = {} THEN 0
       ELSE CHOOSE k \in ready :
              \A j \in ready : \E a, b \in 1..Len(completion) :
                 completion[a] = k /\ completion[b] = j /\ a <= b

\* the future whose result list(executor.map(...)) takes next: the futures in
\* the order the names were submitted
NextResult(collected, fut) == Len(collected) + 1

\* list(executor.map(...)): wait for the next future in order; a result is
\* appended, an exception is re-raised after cancelling the futures that
\* have not started
executor_map_result ==
    /\ main_pc = "map"
    /\ LET k == NextResult(analyzer_objects, future) IN
       /\ k \in Tasks
       /\ future[k] \in {"finished", "failed"}
       /\ IF future[k] = "finished"
          THEN /\ analyzer_objects' = Append(analyzer_objects, k)
               /\ main_pc' = IF Len(analyzer_objects) + 1 = Cardinality(Tasks)
                             THEN "shutdown" ELSE "map"
               /\ UNCHANGED <<main_exc, future, pc>>
          ELSE /\ main_exc' = exc[k].type
               /\ main_pc' = "shutdown"
               /\ future' = [i \in Tasks |->
                    IF future[i] = "pending" THEN "cancelled" ELSE future[i]]
               /\ pc' = [i \in Tasks |->
                    IF future[i] = "pending" THEN "done" ELSE pc[i]]
               /\ UNCHANGED analyzer_objects
    /\ UNCHANGED <<pivot_channel_name, targeted_channel_name, exc,
                   _channel_name, url, listVars, years_of_activity,
                   instance_attrs, class_attrs, driver, height, link_idx,
                   started, returned, caught, completion, windowVars,
                   callVars>>

\* leaving the with block: shutdown(wait=True) joins the workers, then
\* analyze_channels returns the pair or the exception propagates
executor_shutdown ==
    /\ main_pc = "shutdown"
    /\ \A i \in Tasks : future[i] \in {"finished", "failed", "cancelled"}
    /\ main_pc' = IF main_exc = "none" THEN "returned" ELSE "raised"
    /\ UNCHANGED <<pivot_channel_name, targeted_channel_name, main_exc,
                   analyzer_objects, future, pc, exc, _channel_name, url,
                   listVars, years_of_activity, instance_attrs, class_attrs,
                   driver, height, link_idx, started, returned, caught,
                   completion, windowVars, callVars>>

(***************************************************************************)
(* harvest_data: the steps of the try block, then the finally clause.      *)
(***************************************************************************)
HarvestSteps ==
    <<"_open_url", "_access_youtube", "_get_general_info",
      "_find_all_videos_links", "_find_videos_info", "_update_dataframes",
      "_extract_years_of_activity">>

\* a harvest_data that goes from _open_url straight to _get_general_info
After_skipping_consent(step) ==
    LET k == CHOOSE j \in 1..Len(HarvestSteps) : HarvestSteps[j] = step IN
    IF k = 1 THEN HarvestSteps[3]
    ELSE IF k < Len(HarvestSteps) THEN HarvestSteps[k + 1] ELSE "finally"

\* the statement harvest_data executes after step has returned
After(step) ==
    LET k == CHOOSE j \in 1..Len(HarvestSteps) : HarvestSteps[j] = step IN
    IF k < Len(HarvestSteps) THEN HarvestSteps[k + 1] ELSE "finally"

\* harvest_data calls step
Call(i, step) == started' = [started EXCEPT ![i] = Append(@, step)]

\* step returns normally
Proceed(i, step) ==
    /\ pc' = [pc EXCEPT ![i] = After(step)]
    /\ returned' = [returned EXCEPT ![i] = Append(@, step)]
    /\ UNCHANGED exc

\* an exception leaves step: control goes to the finally clause
Abort(i, step, type, source) ==
    /\ pc' = [pc EXCEPT ![i] = "finally"]
    /\ exc' = [exc EXCEPT ![i] = [type |-> type, step |-> step, source |-> source]]
    /\ UNCHANGED returned

\* an except clause of step handles an exception
Catch(i, step, type, at) ==
    caught' = [caught EXCEPT ![i] =
                  Append(@, [step |-> step, type |-> type, at |-> at])]

\* a worker takes task i: ca = ChannelAnalyzer(channel_name), whose last
\* statements start the browser
analyze_channel(i) ==
    /\ pc[i] = "analyze_channel"
    /\ future[i] = "pending"
    /\ \/ /\ _channel_name' = [_channel_name EXCEPT ![i] = channel_names[i]]
          /\ url' = [url EXCEPT ![i] = SITE \o "/" \o channel_names[i]]
          /\ driver' = [driver EXCEPT ![i].session = "open"]
          /\ pc' = [pc EXCEPT ![i] = HarvestSteps[1]]
          /\ future' = [future EXCEPT ![i] = "running"]
          /\ UNCHANGED <<exc, completion>>
       \/ /\ exc' = [exc EXCEPT ![i] = [type |-> "WebDriverException",
                                        step |-> "__init__", source |-> "driver"]]
          /\ pc' = [pc EXCEPT ![i] = "done"]
          /\ future' = [future EXCEPT ![i] = "failed"]
          /\ completion' = Append(completion, i)
          /\ UNCHANGED <<_channel_name, url, driver>>
    /\ UNCHANGED <<mainVars, listVars, years_of_activity, instance_attrs,
                   class_attrs, height, link_idx, started, returned, caught>>

\* self.driver.get(self.url)
_open_url(i) ==
    /\ pc[i] = "_open_url"
    /\ Call(i, "_open_url")
    /\ \/ /\ driver' = [driver EXCEPT ![i].page = url[i]]
          /\ Proceed(i, "_open_url")
       \/ /\ Abort(i, "_open_url", "WebDriverException", "driver")
          /\ UNCHANGED driver
    /\ UNCHANGED <<mainVars, future, completion, _channel_name, url, listVars,
                   years_of_activity, instance_attrs, class_attrs, height,
                   link_idx, caught>>

\* wait for the accept button and click it; the wait raises TimeoutException
\* when the button does not appear
_access_youtube(i) ==
    /\ pc[i] = "_access_youtube"
    /\ Call(i, "_access_youtube")
    /\ \/ Proceed(i, "_access_youtube")
       \/ Abort(i, "_access_youtube", "TimeoutException", "wait")
    /\ UNCHANGED <<mainVars, future, completion, _channel_name, url, listVars,
                   years_of_activity, instance_attrs, class_attrs, driver,
                   height, link_idx, caught>>

\* the first error among the results of the normalizer calls, in call order
FirstError(results) ==
    results[CHOOSE k \in 1..Len(results) :
                /\ ~results[k].ok
                /\ \A j \in 1..(k - 1) : results[j].ok].err

AllOk(results) == \A k \in 1..Len(results) : results[k].ok

\* a _get_general_info whose except clause logs the missing element and
\* raises it again
_get_general_info_reraise(i) ==
    /\ pc[i] = "_get_general_info"
    /\ Call(i, "_get_general_info")
    /\ Catch(i, "_get_general_info", "NoSuchElementException", 0)
    /\ Abort(i, "_get_general_info", "NoSuchElementException", "driver")
    /\ UNCHANGED <<mainVars, future, completion, _channel_name, url, listVars,
                   years_of_activity, instance_attrs, class_attrs, driver,
                   height, link_idx>>

\* header fields of the channel page, normalized and appended as one entry;
\* only NoSuchElementException is handled
_get_general_info(i) ==
    /\ pc[i] = "_get_general_info"
    /\ Call(i, "_get_general_info")
    /\ \/ /\ Abort(i, "_get_general_info", "TimeoutException", "wait")
          /\ UNCHANGED <<_general_channel_info, caught>>
       \/ /\ Catch(i, "_get_general_info", "NoSuchElementException", 0)
          /\ Proceed(i, "_get_general_info")
          /\ UNCHANGED _general_channel_info
       \/ \E subs \in SubsTexts, vids \in VideoCountTexts,
             join \in JoinTexts, total \in TotalViewsTexts :
            LET get_subscribers_num == _convert_subs_or_videos(subs)
                get_videos_num == _convert_subs_or_videos(vids)
                join_date == _convert_date(join)
                total_views == _format_views(total)
                results == <<get_subscribers_num, get_videos_num, join_date,
                             total_views>>
            IN IF AllOk(results)
               THEN /\ _general_channel_info' =
                         [_general_channel_info EXCEPT ![i] = Append(@,
                            [header_name     |-> ChannelOfPage(driver[i].page),
                             subscribers_num |-> get_subscribers_num.val,
                             videos_num      |-> get_videos_num.val,
                             join_date       |-> join_date.val,
                             total_views     |-> total_views.val])]
                    /\ Proceed(i, "_get_general_info")
                    /\ UNCHANGED caught
               ELSE /\ Abort(i, "_get_general_info", FirstError(results),
                             "normalizer")
                    /\ UNCHANGED <<_general_channel_info, caught>>
    /\ UNCHANGED <<mainVars, future, completion, _channel_name, url, _links_of_all_videos,
                   _all_videos_details, years_of_activity, instance_attrs,
                   class_attrs, driver, height, link_idx>>

\* self.driver.get(f'{SITE}/{self._channel_name}/videos'), then _scroll reads
\* the page height, which is measured in rendered video items
_find_all_videos_links(i) ==
    /\ pc[i] = "_find_all_videos_links"
    /\ Call(i, "_find_all_videos_links")
    /\ \/ \E n \in 0..MaxLinks :
            /\ driver' = [driver EXCEPT
                    ![i].page = SITE \o "/" \o _channel_name[i] \o "/videos"]
            /\ height' = [height EXCEPT ![i] = n]
            /\ pc' = [pc EXCEPT ![i] = "_scroll"]
            /\ UNCHANGED <<exc, returned>>
       \/ /\ Abort(i, "_find_all_videos_links", "WebDriverException", "driver")
          /\ UNCHANGED <<driver, height>>
    /\ UNCHANGED <<mainVars, future, completion, _channel_name, url, listVars,
                   years_of_activity, instance_attrs, class_attrs, link_idx,
                   caught>>

\* a _scroll that scrolls once and returns whatever the new height is
_scroll_once(i) ==
    /\ pc[i] = "_scroll"
    /\ \/ \E new_height \in height[i]..MaxLinks :
            /\ pc' = [pc EXCEPT ![i] = "find_elements"]
            /\ height' = [height EXCEPT ![i] = new_height]
            /\ UNCHANGED <<exc, returned>>
       \/ /\ Proceed(i, "_find_all_videos_links")
          /\ height' = [height EXCEPT ![i] = 0]
    /\ UNCHANGED <<mainVars, future, completion, _channel_name, url, listVars,
                   years_of_activity, instance_attrs, class_attrs, driver,
                   link_idx, started, caught>>

\* one pass of _scroll's loop: send END, sleep, read the height again; the
\* page may have rendered more items meanwhile.  The loop ends when the
\* height has not changed
_scroll(i) ==
    /\ pc[i] = "_scroll"
    /\ \/ \E new_height \in height[i]..MaxLinks :
            /\ IF height[i] = new_height
               THEN pc' = [pc EXCEPT ![i] = "find_elements"]
               ELSE pc' = [pc EXCEPT ![i] = "_scroll"]
            /\ height' = [height EXCEPT ![i] = new_height]
            /\ UNCHANGED <<exc, returned>>
       \/ \* the html element is not found: handled by _find_all_videos_links
          /\ Proceed(i, "_find_all_videos_links")
          /\ height' = [height EXCEPT ![i] = 0]
    /\ UNCHANGED <<mainVars, future, completion, _channel_name, url, listVars,
                   years_of_activity, instance_attrs, class_attrs, driver,
                   link_idx, started, caught>>

\* the links of the first n rendered items of the page, in page order
LinksOfPage(page, n) == [k \in 1..n |-> WatchUrl(ChannelOfPage(page), k)]

\* find_elements returns the items of the page as _scroll last measured it,
\* then one link is appended per item; an item without a link raises
\* NoSuchElementException, which ends the loop after the n links before it.
\* _scroll's local is gone when the step returns
_find_all_videos_links_collect(i) ==
    /\ pc[i] = "find_elements"
    /\ \E n \in 0..height[i] :
         _links_of_all_videos' = [_links_of_all_videos EXCEPT ![i] =
                @ \o LinksOfPage(driver[i].page, n)]
    /\ height' = [height EXCEPT ![i] = 0]
    /\ Proceed(i, "_find_all_videos_links")
    /\ UNCHANGED <<mainVars, future, completion, _channel_name, url, _general_channel_info,
                   _all_videos_details, years_of_activity, instance_attrs,
                   class_attrs, driver, link_idx, started, caught>>

\* the for loop is over when every link has been visited
LoopDone(i, visited) == visited = Len(_links_of_all_videos[i])

\* _find_videos_info is entered: the for loop starts at the first link, and
\* the step returns at once when there is none
_find_videos_info(i) ==
    /\ pc[i] = "_find_videos_info"
    /\ Call(i, "_find_videos_info")
    /\ link_idx' = [link_idx EXCEPT ![i] = 0]
    /\ IF LoopDone(i, 0)
       THEN Proceed(i, "_find_videos_info")
       ELSE /\ pc' = [pc EXCEPT ![i] = "for_link"]
            /\ UNCHANGED <<exc, returned>>
    /\ UNCHANGED <<mainVars, future, completion, _channel_name, url, listVars,
                   years_of_activity, instance_attrs, class_attrs, driver,
                   height, caught>>

\* the loop goes on to the next link, or the step returns after the last one
NextLink(i) ==
    /\ link_idx' = [link_idx EXCEPT ![i] = @ + 1]
    /\ IF LoopDone(i, link_idx[i] + 1)
       THEN Proceed(i, "_find_videos_info")
       ELSE UNCHANGED <<pc, exc, returned>>

\* one pass of the loop: open the link (outside the try statement), wait for
\* the description expander, read the fields, normalize views and date,
\* append the record; only NoSuchElementException is handled, by skipping
\* the video
_find_videos_info_link(i) ==
    /\ pc[i] = "for_link"
    /\ link_idx[i] < Len(_links_of_all_videos[i])
    /\ LET link == _links_of_all_videos[i][link_idx[i] + 1]
           k == VideoOfLink(link)[2]
       IN
       \/ /\ Abort(i, "_find_videos_info", "WebDriverException", "driver")
          /\ UNCHANGED <<driver, _all_videos_details, link_idx, caught>>
       \/ /\ driver' = [driver EXCEPT ![i].page = link]
          /\ \/ /\ Abort(i, "_find_videos_info", "TimeoutException", "wait")
                /\ UNCHANGED <<_all_videos_details, link_idx, caught>>
             \/ /\ Catch(i, "_find_videos_info", "NoSuchElementException",
                         link_idx[i] + 1)
                /\ NextLink(i)
                /\ UNCHANGED _all_videos_details
             \/ \E views \in VideoViewsTexts(k), date \in VideoDateTexts(k) :
                  LET results == <<_format_views(views), _convert_date(date)>> IN
                  IF AllOk(results)
                  THEN /\ _all_videos_details' =
                            [_all_videos_details EXCEPT ![i] = Append(@,
                               [title       |-> link,
                                views       |-> results[1].val,
                                date        |-> results[2].val,
                                description |-> "",
                                link        |-> link])]
                       /\ NextLink(i)
                       /\ UNCHANGED caught
                  ELSE /\ Abort(i, "_find_videos_info", FirstError(results),
                                "normalizer")
                       /\ UNCHANGED <<_all_videos_details, link_idx, caught>>
    /\ UNCHANGED <<mainVars, future, completion, _channel_name, url, _general_channel_info,
                   _links_of_all_videos, years_of_activity, instance_attrs,
                   class_attrs, height, started>>

\* an _update_dataframes that assigns the attributes of the class
\* (ChannelAnalyzer._general_info_dataframe = ...) instead of the instance's
_update_dataframes_on_class(i) ==
    /\ pc[i] = "_update_dataframes"
    /\ Call(i, "_update_dataframes")
    /\ LET general == DataFrame(_general_channel_info[i], GeneralColumns)
           videos == DataFrame(_all_videos_details[i], VideoColumns)
           statistic == describe(videos)
       IN /\ class_attrs' =
                [_general_info_dataframe     |-> general,
                 _videos_info_dataframe      |-> videos,
                 _videos_statistic_dataframe |->
                     IF statistic.ok THEN statistic.val
                     ELSE class_attrs._videos_statistic_dataframe]
          /\ IF statistic.ok THEN UNCHANGED caught
             ELSE Catch(i, "_update_dataframes", statistic.err, 0)
    /\ Proceed(i, "_update_dataframes")
    /\ UNCHANGED <<mainVars, future, completion, _channel_name, url, listVars,
                   years_of_activity, instance_attrs, driver, height, link_idx>>

\* the three assignments of the try block, on the instance; describe() of a
\* frame without columns raises, which the except clause handles after the
\* first two assignments have been made
_update_dataframes(i) ==
    /\ pc[i] = "_update_dataframes"
    /\ Call(i, "_update_dataframes")
    /\ LET general == DataFrame(_general_channel_info[i], GeneralColumns)
           videos == DataFrame(_all_videos_details[i], VideoColumns)
           statistic == describe(videos)
       IN /\ instance_attrs' = [instance_attrs EXCEPT ![i] =
                [_general_info_dataframe     |-> general,
                 _videos_info_dataframe      |-> videos,
                 _videos_statistic_dataframe |->
                     IF statistic.ok THEN statistic.val
                     ELSE @._videos_statistic_dataframe]]
          /\ IF statistic.ok THEN UNCHANGED caught
             ELSE Catch(i, "_update_dataframes", statistic.err, 0)
    /\ Proceed(i, "_update_dataframes")
    /\ UNCHANGED <<mainVars, future, completion, _channel_name, url, listVars,
                   years_of_activity, class_attrs, driver, height, link_idx>>

\* years_of_activity from the date column of the videos frame; indexing a
\* frame that has no 'date' column raises KeyError
_extract_years_of_activity(i) ==
    /\ pc[i] = "_extract_years_of_activity"
    /\ Call(i, "_extract_years_of_activity")
    /\ LET videos == SelfAttr(i, "_videos_info_dataframe") IN
       IF videos.kind = "None"
       THEN /\ Proceed(i, "_extract_years_of_activity")
            /\ UNCHANGED years_of_activity
       ELSE IF ~HasColumn(videos, "date")
       THEN /\ Abort(i, "_extract_years_of_activity", "KeyError", "dataframe")
            /\ UNCHANGED years_of_activity
       ELSE /\ years_of_activity' = [years_of_activity EXCEPT ![i] = YearsOf(videos)]
            /\ Proceed(i, "_extract_years_of_activity")
    /\ UNCHANGED <<mainVars, future, completion, _channel_name, url, listVars,
                   instance_attrs, class_attrs, driver, height, link_idx,
                   caught>>

\* a harvest_data that closes the driver as the last statement of the try
\* block instead of in a finally clause
harvest_data_close_in_try(i) ==
    /\ pc[i] = "finally"
    /\ Call(i, "driver.close")
    /\ driver' = [driver EXCEPT ![i].session =
            IF exc[i].type = "none" THEN "closed" ELSE @]
    /\ pc' = [pc EXCEPT ![i] = "done"]
    /\ future' = [future EXCEPT ![i] =
            IF exc[i].type = "none" THEN "finished" ELSE "failed"]
    /\ completion' = Append(completion, i)
    /\ UNCHANGED <<mainVars, exc, _channel_name, url, listVars,
                   years_of_activity, instance_attrs, class_attrs, height,
                   link_idx, returned, caught>>

\* finally: self.driver.close(); then harvest_data returns or the exception
\* propagates, and analyze_channel's future is done
harvest_data_finally(i) ==
    /\ pc[i] = "finally"
    /\ Call(i, "driver.close")
    /\ driver' = [driver EXCEPT ![i].session = "closed"]
    /\ pc' = [pc EXCEPT ![i] = "done"]
    /\ future' = [future EXCEPT ![i] =
            IF exc[i].type = "none" THEN "finished" ELSE "failed"]
    /\ completion' = Append(completion, i)
    /\ UNCHANGED <<mainVars, exc, _channel_name, url, listVars,
                   years_of_activity, instance_attrs, class_attrs, height,
                   link_idx, returned, caught>>

harvest_data(i) ==
    \/ _open_url(i)
    \/ _access_youtube(i)
    \/ _get_general_info(i)
    \/ _find_all_videos_links(i)
    \/ _scroll(i)
    \/ _find_all_videos_links_collect(i)
    \/ _find_videos_info(i)
    \/ _find_videos_info_link(i)
    \/ _update_dataframes(i)
    \/ _extract_years_of_activity(i)
    \/ harvest_data_finally(i)

Next ==
    \/ analyze_channels
    \/ executor_map_result
    \/ executor_shutdown
    \/ \E i \in Tasks : analyze_channel(i) \/ harvest_data(i)

Spec == Init /\ [][Next]_vars

TypeOK ==
    /\ main_pc \in {"start", "map", "shutdown", "returned", "raised", "idle"}
    /\ \A i \in Tasks :
         /\ future[i] \in {"none", "pending", "running", "finished", "failed",
                           "cancelled"}
         /\ driver[i].session \in {"none", "open", "closed"}
         /\ link_idx[i] \in 0..Len(_links_of_all_videos[i])

(***************************************************************************)
(* The handlers of YouStatsWindow.  The analyze button calls               *)
(* set_analyzer_objects, which calls analyze_channels and goes on when it  *)
(* has returned or raised; the other buttons are used once that handler is *)
(* over.  An analyzer the window holds is named by its task, 0 is None.    *)
(***************************************************************************)
InSeq(x, q) == \E k \in 1..Len(q) : q[k] = x

\* how many workbooks are written per analyzer
MaxSaves == 2

Sides == {"yc", "tc"}

\* self._yc_analyze or self._tc_analyze
AnalyzerOf(side) ==
    IF side = "yc" THEN window._yc_analyze ELSE window._tc_analyze

\* years[0], dropdown_var.set(...), dropdown_menu.configure(...)
set_dropdown_menus(m, name, years) ==
    IF years = <<>> THEN Raise("IndexError")
    ELSE Ok([m EXCEPT ![name] = [var    |-> years[1],
                                 state  |-> "normal",
                                 values |-> years]])

\* the calls of set_dropdown_menus left in update_available_years, in
\* order; the dropdowns set before a call that raises keep their new state
RECURSIVE SetDropdownMenus(_, _)
SetDropdownMenus(m, todo) ==
    IF todo = <<>> THEN [menus |-> m, exc |-> "none"]
    ELSE LET set == set_dropdown_menus(m, Head(todo)[1], Head(todo)[2]) IN
         IF ~set.ok THEN [menus |-> m, exc |-> set.err]
         ELSE SetDropdownMenus(set.val, Tail(todo))

\* update_available_years on window attributes w and dropdowns m: reading
\* years_of_activity of None raises AttributeError
update_available_years(w, m) ==
    IF w._yc_analyze = 0
    THEN [window |-> w, menus |-> m, exc |-> "AttributeError"]
    ELSE
    LET w1 == [w EXCEPT !.yc_posting_years = years_of_activity[w._yc_analyze],
                        !.yc_views_years = years_of_activity[w._yc_analyze]]
    IN
    IF w._tc_analyze = 0
    THEN [window |-> w1, menus |-> m, exc |-> "AttributeError"]
    ELSE
    LET w2 == [w1 EXCEPT !.tc_posting_years = years_of_activity[w._tc_analyze],
                         !.tc_views_years = years_of_activity[w._tc_analyze]]
        w3 == [w2 EXCEPT
                 !.common_posting_years =
                     find_common_years(w2.yc_posting_years, w2.tc_posting_years),
                 !.common_views_years =
                     find_common_years(w2.yc_views_years, w2.tc_views_years)]
        set == SetDropdownMenus(m,
                 << <<"yc_posts", w3.yc_posting_years>>,
                    <<"yc_views", w3.yc_views_years>>,
                    <<"tc_posts", w3.tc_posting_years>>,
                    <<"tc_views", w3.tc_views_years>>,
                    <<"common_posts", w3.common_posting_years>>,
                    <<"common_views", w3.common_views_years>> >>)
    IN [window |-> w3, menus |-> set.menus, exc |-> set.exc]

\* set_analyzer_objects after analyze_channels: the pair is stored when it
\* returned; MissingChannelNamesError is shown in a pop-up, any other
\* exception leaves the handler; then update_available_years is called
set_analyzer_objects ==
    /\ main_pc \in {"returned", "raised"}
    /\ main_pc' = "idle"
    /\ IF main_pc = "raised" /\ main_exc # "MissingChannelNamesError"
       THEN /\ win_exc' = [handler |-> "set_analyzer_objects", type |-> main_exc]
            /\ UNCHANGED <<window, menus, error_message>>
       ELSE LET assigned ==
                    IF main_pc = "returned"
                    THEN [window EXCEPT !._yc_analyze = analyzer_objects[1],
                                        !._tc_analyze = analyzer_objects[2]]
                    ELSE window
                update == update_available_years(assigned, menus)
            IN /\ error_message' = IF main_pc = "raised"
                                   THEN " Channels Fill Error"
                                   ELSE error_message
               /\ window' = update.window
               /\ menus' = update.menus
               /\ win_exc' = IF update.exc = "none" THEN win_exc
                             ELSE [handler |-> "set_analyzer_objects",
                                   type |-> update.exc]
    /\ UNCHANGED <<pivot_channel_name, targeted_channel_name, main_exc,
                   analyzer_objects, future, pc, exc, _channel_name, url,
                   listVars, years_of_activity, instance_attrs, class_attrs,
                   driver, height, link_idx, started, returned, caught,
                   completion, excel, plotted, callVars>>

\* self._videos_info_dataframe.index = self._videos_info_dataframe.index + 1
IndexPlusOne(df) == [df EXCEPT !.index = [k \in 1..Len(@) |-> @[k] + 1]]

\* save_channel_details of analyzer i: the general sheet, the index of the
\* videos frame moved up by one in place, the videos sheet with that index,
\* the statistics sheet; to_excel of None raises AttributeError
save_channel_details(i) ==
    LET general == SelfAttr(i, "_general_info_dataframe")
        videos == SelfAttr(i, "_videos_info_dataframe")
        statistic == SelfAttr(i, "_videos_statistic_dataframe")
        moved == IndexPlusOne(videos)
    IN
    IF general.kind = "None" \/ videos.kind = "None"
    THEN [exc |-> "AttributeError", videos |-> videos, sheets |-> <<>>]
    ELSE IF statistic.kind = "None"
    THEN [exc |-> "AttributeError", videos |-> moved, sheets |-> <<>>]
    ELSE [exc |-> "none", videos |-> moved,
          sheets |-> << [general      |-> Len(general.rows),
                         videos_index |-> moved.index,
                         videos       |-> Len(moved.rows)] >>]

\* the export button of a side: save_channel_details of that side's
\* analyzer; AttributeError (the analyzer or a frame is None) is shown in a
\* pop-up
save_data_to_csv(side) ==
    /\ main_pc = "idle"
    /\ LET channel == AnalyzerOf(side) IN
       IF channel = 0
       THEN /\ error_message' = " Export CSV Error"
            /\ UNCHANGED <<instance_attrs, class_attrs, excel>>
       ELSE LET saved == save_channel_details(channel) IN
            /\ Len(excel[channel]) < MaxSaves
            /\ error_message' = IF saved.exc = "none" THEN error_message
                                ELSE " Export CSV Error"
            /\ excel' = [excel EXCEPT ![channel] = @ \o saved.sheets]
            /\ IF instance_attrs[channel]._videos_info_dataframe.kind = "unset"
               THEN /\ class_attrs' = [class_attrs EXCEPT
                            !._videos_info_dataframe = saved.videos]
                    /\ UNCHANGED instance_attrs
               ELSE /\ instance_attrs' = [instance_attrs EXCEPT
                            ![channel]._videos_info_dataframe = saved.videos]
                    /\ UNCHANGED class_attrs
    /\ UNCHANGED <<pivot_channel_name, targeted_channel_name, main_pc,
                   main_exc, analyzer_objects, future, pc, exc, _channel_name,
                   url, listVars, years_of_activity, driver, height, link_idx,
                   started, returned, caught, completion, window, menus,
                   win_exc, plotted, callVars>>

\* channel.videos_info_dataframe[column] through the property, which returns
\* a copy: DataFrameEmpty for an analyzer without the frame, KeyError for a
\* frame without the column
ColumnOf(i, column) ==
    LET videos == SelfAttr(i, "_videos_info_dataframe") IN
    IF videos.kind = "None" THEN Raise("DataFrameEmpty")
    ELSE IF ~HasColumn(videos, column) THEN Raise("KeyError")
    ELSE Ok([k \in 1..Len(videos.rows) |->
                IF column = "date" THEN videos.rows[k].date
                ELSE videos.rows[k].views])

\* one figure per year asked for; channel_data.get(year) is None for a year
\* the channel has no video in, and None has no values()
Plot(kind, channel_data, years_for_plotting) ==
    IF \E k \in 1..Len(years_for_plotting) :
            ~DictHas(channel_data, years_for_plotting[k])
    THEN Raise("AttributeError")
    ELSE Ok([kind  |-> kind,
             years |-> years_for_plotting,
             channel_values |->
                 [k \in 1..Len(years_for_plotting) |->
                     DictValues(DictGet(channel_data, years_for_plotting[k]))]])

\* what a graph handler does with the outcome of show_...: AttributeError is
\* shown in a pop-up, any other exception leaves the handler
Shown(handler, title, outcome) ==
    /\ plotted' = IF outcome.ok THEN outcome.val ELSE plotted
    /\ error_message' = IF ~outcome.ok /\ outcome.err = "AttributeError"
                        THEN title ELSE error_message
    /\ win_exc' = IF outcome.ok \/ outcome.err = "AttributeError"
                  THEN win_exc
                  ELSE [handler |-> handler, type |-> outcome.err]

\* the posting graph button of a side, for the year its dropdown shows
get_single_channel_posts(side) ==
    /\ main_pc = "idle"
    /\ LET channel == AnalyzerOf(side)
           year_for_plotting == <<menus[side \o "_posts"].var>>
           posting_dates == ColumnOf(channel, "date")
           posting_per_year == _get_posting_per_year(posting_dates.val)
       IN Shown("get_single_channel_posts", " Posting Graphs Error",
                IF channel = 0 THEN Raise("AttributeError")
                ELSE IF ~posting_dates.ok THEN posting_dates
                ELSE IF ~posting_per_year.ok THEN posting_per_year
                ELSE Plot("posts", posting_per_year.val, year_for_plotting))
    /\ UNCHANGED <<pivot_channel_name, targeted_channel_name, main_pc,
                   main_exc, analyzer_objects, future, pc, exc, _channel_name,
                   url, listVars, years_of_activity, instance_attrs,
                   class_attrs, driver, height, link_idx, started, returned,
                   caught, completion, window, menus, excel, callVars>>

\* the views graph button of a side, for the year its dropdown shows
get_single_channel_views(side) ==
    /\ main_pc = "idle"
    /\ LET channel == AnalyzerOf(side)
           year_for_plotting == <<menus[side \o "_views"].var>>
           views == ColumnOf(channel, "views")
           dates == ColumnOf(channel, "date")
           views_per_year == _get_views_per_year(views.val, dates.val)
       IN Shown("get_single_channel_views", " Views Graphs Error",
                IF channel = 0 THEN Raise("AttributeError")
                ELSE IF ~views.ok THEN views
                ELSE IF ~dates.ok THEN dates
                ELSE IF ~views_per_year.ok THEN views_per_year
                ELSE Plot("views", views_per_year.val, year_for_plotting))
    /\ UNCHANGED <<pivot_channel_name, targeted_channel_name, main_pc,
                   main_exc, analyzer_objects, future, pc, exc, _channel_name,
                   url, listVars, years_of_activity, instance_attrs,
                   class_attrs, driver, height, link_idx, started, returned,
                   caught, completion, window, menus, excel, callVars>>

\* the values a client assigns to the videos_info_dataframe property: a frame
\* of one video of 2023, and None
AssignedValues ==
    { DataFrame(<< [title       |-> "assigned",
                    views       |-> 7,
                    date        |-> strftime([month |-> 3, day |-> 3,
                                              year |-> 2023]),
                    description |-> "",
                    link        |-> "assigned"] >>, VideoColumns),
      None }

\* analyzer.videos_info_dataframe = value, on an analyzer analyze_channels
\* has returned: DataFrameAssignment unless value is a DataFrame, else the
\* attribute is assigned and nothing else
videos_info_dataframe_setter(i) ==
    /\ main_pc = "returned"
    /\ InSeq(i, analyzer_objects)
    /\ \E value \in AssignedValues :
         IF value.kind # "DataFrame"
         THEN /\ win_exc' = [handler |-> "videos_info_dataframe",
                             type |-> "DataFrameAssignment"]
              /\ UNCHANGED instance_attrs
         ELSE /\ instance_attrs' = [instance_attrs EXCEPT
                      ![i]._videos_info_dataframe = value]
              /\ UNCHANGED win_exc
    /\ UNCHANGED <<pivot_channel_name, targeted_channel_name, main_pc,
                   main_exc, analyzer_objects, future, pc, exc, _channel_name,
                   url, listVars, years_of_activity, class_attrs, driver,
                   height, link_idx, started, returned, caught, completion,
                   window, menus, error_message, excel, plotted, callVars>>

NextWindow ==
    \/ Next
    \/ set_analyzer_objects
    \/ \E side \in Sides :
          \/ save_data_to_csv(side)
          \/ get_single_channel_posts(side)
          \/ get_single_channel_views(side)

\* the window from its construction on: one analysis, then the handlers
SpecWindow == Init /\ [][NextWindow]_vars

NextSetters ==
    \/ Next
    \/ \E i \in Tasks : videos_info_dataframe_setter(i)

\* the analyzers from their construction on: the harvest, then assignments
\* through the property
SpecSetters == Init /\ [][NextSetters]_vars

(***************************************************************************)
(* A client of one ChannelAnalyzer: it constructs the analyzer, reads and  *)
(* assigns its properties, and calls harvest_data once.                    *)
(***************************************************************************)
\* the target a client constructs the analyzer with
ClientTargets == {NONE, "@a"}

\* the channel names a client assigns
NameValues == {NONE, "@b"}

PropertyNames ==
    {"channel_name", "general_info_dataframe", "videos_info_dataframe",
     "videos_statistic_dataframe"}

\* analyzer i has been constructed
Exists(i) == driver[i].session # "none"

\* no call of harvest_data is in progress on analyzer i
Quiet(i) == Exists(i) /\ (started[i] = <<>> \/ pc[i] = "done")

\* what analyzer i stores behind its four properties
Stored(i) ==
    [_channel_name |-> _channel_name[i], frames |-> instance_attrs[i]]

\* ChannelAnalyzer(target) called by the client: the attributes are set and
\* the browser is started, or starting the browser raises
ChannelAnalyzer__init__(i) ==
    /\ pc[i] = "idle"
    /\ \/ \E target \in ClientTargets :
            /\ _channel_name' = [_channel_name EXCEPT ![i] = target]
            /\ url' = [url EXCEPT ![i] = SITE \o "/" \o target]
            /\ driver' = [driver EXCEPT ![i].session = "open"]
            /\ pc' = [pc EXCEPT ![i] = HarvestSteps[1]]
            /\ future' = [future EXCEPT ![i] = "running"]
            /\ UNCHANGED exc
       \/ /\ exc' = [exc EXCEPT ![i] = [type |-> "WebDriverException",
                                        step |-> "__init__", source |-> "driver"]]
          /\ pc' = [pc EXCEPT ![i] = "done"]
          /\ future' = [future EXCEPT ![i] = "failed"]
          /\ UNCHANGED <<_channel_name, url, driver>>
    /\ UNCHANGED <<mainVars, listVars, years_of_activity, instance_attrs,
                   class_attrs, height, link_idx, started, returned, caught,
                   completion>>

\* a getter that returns whatever is stored
property_get_unguarded(i, name) ==
    IF name = "channel_name" THEN Ok(_channel_name[i])
    ELSE Ok(SelfAttr(i, "_" \o name))

\* the getter of a property: channel_name raises ChannelIsNone for None, a
\* dataframe property raises DataFrameEmpty for None and returns a copy
\* otherwise
property_get(i, name) ==
    IF name = "channel_name"
    THEN IF _channel_name[i] = NONE THEN Raise("ChannelIsNone")
         ELSE Ok(_channel_name[i])
    ELSE IF SelfAttr(i, "_" \o name).kind = "None" THEN Raise("DataFrameEmpty")
         ELSE Ok(SelfAttr(i, "_" \o name))

\* the client reads analyzer.<name>
read(i, name) ==
    /\ Quiet(i)
    /\ call' = [fn |-> "get", args |-> <<name>>, at |-> Stored(i)]
    /\ result' = property_get(i, name)
    /\ UNCHANGED analysisVars

\* a setter that stores the value before it checks it
assign_before_check(i, name, value) ==
    /\ Quiet(i)
    /\ call' = [fn |-> "set", args |-> <<name, value>>, at |-> Stored(i)]
    /\ IF name = "channel_name"
       THEN IF value = NONE
            THEN /\ result' = Raise("ChannelIsNone")
                 /\ UNCHANGED <<_channel_name, instance_attrs>>
            ELSE /\ result' = Ok(None)
                 /\ _channel_name' = [_channel_name EXCEPT ![i] = value]
                 /\ UNCHANGED instance_attrs
       ELSE IF value.kind # "DataFrame"
            THEN /\ result' = Raise("DataFrameAssignment")
                 /\ instance_attrs' = [instance_attrs EXCEPT
                               ![i]["_" \o name] = value]
                       /\ UNCHANGED _channel_name
            ELSE /\ result' = Ok(None)
                 /\ instance_attrs' = [instance_attrs EXCEPT
                         ![i]["_" \o name] = value]
                 /\ UNCHANGED _channel_name
    /\ UNCHANGED <<pivot_channel_name, targeted_channel_name, main_pc,
                   main_exc, analyzer_objects, future, pc, exc, url, listVars,
                   years_of_activity, class_attrs, driver, height, link_idx,
                   started, returned, caught, completion, windowVars>>

\* analyzer.<name> = value by a client: the channel_name setter raises
\* ChannelIsNone for None, a dataframe setter DataFrameAssignment for anything
\* but a DataFrame; otherwise the one attribute is assigned
assign(i, name, value) ==
    /\ Quiet(i)
    /\ call' = [fn |-> "set", args |-> <<name, value>>, at |-> Stored(i)]
    /\ IF name = "channel_name"
       THEN IF value = NONE
            THEN /\ result' = Raise("ChannelIsNone")
                 /\ UNCHANGED <<_channel_name, instance_attrs>>
            ELSE /\ result' = Ok(None)
                 /\ _channel_name' = [_channel_name EXCEPT ![i] = value]
                 /\ UNCHANGED instance_attrs
       ELSE IF value.kind # "DataFrame"
            THEN /\ result' = Raise("DataFrameAssignment")
                 /\ UNCHANGED <<_channel_name, instance_attrs>>
            ELSE /\ result' = Ok(None)
                 /\ instance_attrs' = [instance_attrs EXCEPT
                         ![i]["_" \o name] = value]
                 /\ UNCHANGED _channel_name
    /\ UNCHANGED <<pivot_channel_name, targeted_channel_name, main_pc,
                   main_exc, analyzer_objects, future, pc, exc, url, listVars,
                   years_of_activity, class_attrs, driver, height, link_idx,
                   started, returned, caught, completion, windowVars>>

\* the client's call of harvest_data on an analyzer that has a channel
client_harvest_data(i) ==
    /\ Exists(i)
    /\ _channel_name[i] \in Channels
    /\ harvest_data(i)

\* the one analyzer of the client
Client == 1

NextClient ==
    \/ ChannelAnalyzer__init__(Client)
    \/ client_harvest_data(Client)
    \/ \E name \in PropertyNames :
          \/ read(Client, name)
          \/ \E value \in IF name = "channel_name" THEN NameValues
                            ELSE AssignedValues :
                assign(Client, name, value)

\* no analyzer has been constructed and no call been made
InitClient ==
    /\ pivot_channel_name = NONE
    /\ targeted_channel_name = NONE
    /\ NothingAnalyzed
    /\ WindowConstructed
    /\ call = NoCall
    /\ result = NoResult

SpecClient == InitClient /\ [][NextClient]_vars

(***************************************************************************)
(* One harvest of one analyzer, whose thread is not starved: a step that   *)
(* can be taken is eventually taken.  Every wait of a step is bounded: the *)
(* explicit waits time out after 10 seconds, the sleep of _scroll lasts 2  *)
(* seconds, and the driver's page loads have a timeout of their own.       *)
(***************************************************************************)
NextHarvest ==
    \/ ChannelAnalyzer__init__(Client)
    \/ client_harvest_data(Client)

SpecHarvest ==
    InitClient /\ [][NextHarvest]_vars /\ WF_vars(client_harvest_data(Client))

(***************************************************************************)
(* A client that drives the steps of one analyzer itself and calls         *)
(* _find_all_videos_links again once it has returned.                      *)
(***************************************************************************)
\* how many times _find_all_videos_links is called on an analyzer
MaxRuns == 2

\* how many times step occurs in a history of steps
Times(step, history) ==
    Cardinality({k \in 1..Len(history) : history[k] = step})

\* _find_all_videos_links has returned and is called once more, in the same
\* browser session
_find_all_videos_links_again(i) ==
    /\ pc[i] = After("_find_all_videos_links")
    /\ Times("_find_all_videos_links", started[i]) < MaxRuns
    /\ pc' = [pc EXCEPT ![i] = "_find_all_videos_links"]
    /\ UNCHANGED <<mainVars, future, completion, exc, _channel_name, url,
                   listVars, years_of_activity, instance_attrs, class_attrs,
                   driver, height, link_idx, started, returned, caught>>

NextSteps ==
    \/ ChannelAnalyzer__init__(Client)
    \/ client_harvest_data(Client)
    \/ _find_all_videos_links_again(Client)

SpecSteps == InitClient /\ [][NextSteps]_vars

(***************************************************************************)
(* Calls of the static methods, on arguments drawn from bounded sets.      *)
(***************************************************************************)
\* the longest column of dates and views
MaxVideos == 3

\* the longest list of year labels
MaxYears == 3

\* the sequences over S of length up to n
SeqsUpTo(S, n) == UNION {[1..k -> S] : k \in 0..n}

\* texts of the subscribers and videos fields
CountTexts ==
    { <<"2", ".", "3", "7", "K">>,
      <<"5", ".", "3", "4", "7", "M">>,
      <<"1", "0", "0", "K">>,
      <<"2", "3", "5">>,
      <<"2", "3", "5", " ", "v", "i", "d", "e", "o", "s">>,
      <<"2", "K">>,
      <<"1", ".", "5", "K">>,
      <<"1", "2", ".", "5", "M">>,
      <<"3", "M">>,
      <<"1", "2", "3", ".", "4", "5", "6", "K">>,
      <<"1", "2", "3", "4", ".", "5", "6", "7", "M">> }

\* dates as _convert_date writes them: two in the same month, two in
\* different months of another year
DateSamples ==
    { strftime([month |-> 1, day |-> 5, year |-> 2022]),
      strftime([month |-> 1, day |-> 9, year |-> 2022]),
      strftime([month |-> 11, day |-> 27, year |-> 2021]),
      strftime([month |-> 12, day |-> 31, year |-> 2021]) }

ViewsSamples == {12, 3130}

YearLabels ==
    { <<"2", "0", "2", "0">>, <<"2", "0", "2", "1">>, <<"2", "0", "2", "2">> }

\* %b as the site writes it
MonthTexts ==
    << <<"J", "a", "n">>, <<"F", "e", "b">>, <<"M", "a", "r">>,
       <<"A", "p", "r">>, <<"M", "a", "y">>, <<"J", "u", "n">>,
       <<"J", "u", "l">>, <<"A", "u", "g">>, <<"S", "e", "p">>,
       <<"O", "c", "t">>, <<"N", "o", "v">>, <<"D", "e", "c">> >>

DaySamples == {1, 9, 10, 28, 29, 30, 31}

\* a year of three digits, a common year and a leap year
YearSamples == {999, 2021, 2024}

\* the dates of the calendar among the samples
CalendarDates ==
    {dt \in [month : 1..12, day : DaySamples, year : YearSamples] :
        dt.day <= DaysInMonth(dt.month, dt.year)}

\* what precedes the date in the text of a video or of the join date
DatePrefixes ==
    { <<>>, Premiered \o <<" ">>, Joined \o <<" ">> }

\* the decimal digits of n
Decimal(n) == IF n = 0 THEN <<"0">> ELSE ZeroPad(n, 0)

\* '<Mon> D, YYYY' after the prefix, the form of the site's date texts
DateText(prefix, dt) ==
    prefix \o MonthTexts[dt.month] \o <<" ">> \o Decimal(dt.day)
        \o <<",", " ">> \o ZeroPad(dt.year, 4)

\* view counts of one to seven digits
ViewCounts == {0, 7, 999, 1000, 3130, 12345, 100000, 1000000, 1234567}

\* n with comma thousand separators
RECURSIVE WithCommas(_)
WithCommas(n) ==
    IF n < 1000 THEN Decimal(n)
    ELSE WithCommas(n \div 1000) \o <<",">> \o ZeroPad(n % 1000, 3)

\* the text of a views field
ViewsText(n) == WithCommas(n) \o ViewsSuffix

\* the rows of a videos frame, as far as the aggregations read them
VideoRows == SeqsUpTo([date : DateSamples, views : ViewsSamples], MaxVideos)

DatesOf(rows) == [k \in 1..Len(rows) |-> rows[k].date]

ViewsOf(rows) == [k \in 1..Len(rows) |-> rows[k].views]

Calls ==
    {[fn |-> "_convert_subs_or_videos", args |-> <<value>>] :
        value \in CountTexts}
    \cup {[fn |-> "_get_posting_per_year", args |-> <<posting_dates>>] :
        posting_dates \in SeqsUpTo(DateSamples, MaxVideos)}
    \cup {[fn |-> "_get_views_per_year",
           args |-> <<ViewsOf(rows), DatesOf(rows)>>] : rows \in VideoRows}
    \cup {[fn |-> "_convert_date", args |-> <<DateText(prefix, dt)>>] :
        prefix \in DatePrefixes, dt \in CalendarDates}
    \cup {[fn |-> "_format_views", args |-> <<ViewsText(n)>>] :
        n \in ViewCounts}
    \cup {[fn |-> "find_common_years", args |-> years] :
        years \in SeqsUpTo(YearLabels, MaxYears)
                    \X SeqsUpTo(YearLabels, MaxYears)}

InitFunctions ==
    /\ pivot_channel_name = NONE
    /\ targeted_channel_name = NONE
    /\ NothingAnalyzed
    /\ WindowConstructed
    /\ call \in Calls
    /\ result = NoResult

\* the call has returned or raised
HasReturned == result.ok \/ result.err # "pending"

call_convert_subs_or_videos ==
    /\ call.fn = "_convert_subs_or_videos"
    /\ ~HasReturned
    /\ result' = _convert_subs_or_videos(call.args[1])
    /\ UNCHANGED <<analysisVars, call>>

call_convert_date ==
    /\ call.fn = "_convert_date"
    /\ ~HasReturned
    /\ result' = _convert_date(call.args[1])
    /\ UNCHANGED <<analysisVars, call>>

call_format_views ==
    /\ call.fn = "_format_views"
    /\ ~HasReturned
    /\ result' = _format_views(call.args[1])
    /\ UNCHANGED <<analysisVars, call>>

call_get_posting_per_year ==
    /\ call.fn = "_get_posting_per_year"
    /\ ~HasReturned
    /\ result' = _get_posting_per_year(call.args[1])
    /\ UNCHANGED <<analysisVars, call>>

call_get_views_per_year ==
    /\ call.fn = "_get_views_per_year"
    /\ ~HasReturned
    /\ result' = _get_views_per_year(call.args[1], call.args[2])
    /\ UNCHANGED <<analysisVars, call>>

call_find_common_years ==
    /\ call.fn = "find_common_years"
    /\ ~HasReturned
    /\ result' = Ok(find_common_years(call.args[1], call.args[2]))
    /\ UNCHANGED <<analysisVars, call>>

NextFunctions ==
    \/ call_convert_subs_or_videos
    \/ call_convert_date
    \/ call_format_views
    \/ call_get_posting_per_year
    \/ call_get_views_per_year
    \/ call_find_common_years

\* one call of a static method
SpecFunctions == InitFunctions /\ [][NextFunctions]_vars

(***************************************************************************)
(* Properties of harvest_data.                                             *)
(***************************************************************************)
IsPrefix(p, q) == Len(p) <= Len(q) /\ SubSeq(q, 1, Len(p)) = p

\* harvest_data has been called on analyzer i
Harvesting(i) == started[i] # <<>>

\* harvest_data of analyzer i is over
HarvestOver(i) == pc[i] = "done" /\ Harvesting(i)

\* C1: harvest_data closes the driver on every exit path: whenever a harvest
\* is over, by return or by an exception of any step, its session is closed,
\* and no finished or failed task leaves a session open.
C1_SessionClosedOnEveryExit ==
    \A i \in Tasks :
        /\ HarvestOver(i) => driver[i].session = "closed"
        /\ future[i] \in {"finished", "failed"} => driver[i].session # "open"

\* a harvest ended by an exception of the video step, one ended by an
\* exception of the first step, with the sessions closed
C1_Witness ==
    \E i, j \in Tasks :
        /\ HarvestOver(i) /\ exc[i].step = "_find_videos_info"
        /\ HarvestOver(j) /\ exc[j].step = "_open_url"
        /\ driver[i].session = "closed" /\ driver[j].session = "closed"

\* link enumeration of analyzer i returned without a link
ZeroLinks(i) ==
    /\ InSeq("_find_all_videos_links", returned[i])
    /\ _links_of_all_videos[i] = <<>>

\* C2: a harvest whose link enumeration yields zero links returns normally,
\* with an empty videos table and years_of_activity == [].
C2_ZeroLinksIsNotAnError ==
    \A i \in Tasks :
        (ZeroLinks(i) /\ HarvestOver(i)) =>
            /\ exc[i].type = "none"
            /\ SelfAttr(i, "_videos_info_dataframe").kind = "DataFrame"
            /\ SelfAttr(i, "_videos_info_dataframe").rows = <<>>
            /\ years_of_activity[i] = <<>>

\* the except clause of _find_videos_info has skipped a video of analyzer i
VideoSkipped(i) ==
    \E k \in 1..Len(caught[i]) : caught[i][k].step = "_find_videos_info"

\* C3: a failure while extracting one video's details never aborts the
\* harvest: no exception of the extraction (the wait, the reads, the
\* normalizers) leaves _find_videos_info, a skipped video has no record,
\* every link is visited, and harvest_data returns normally.
C3_VideoFailureNeverAborts ==
    \A i \in Tasks :
        /\ ~(exc[i].step = "_find_videos_info" /\ exc[i].source # "driver")
        /\ \A k \in 1..Len(caught[i]) :
             caught[i][k].step = "_find_videos_info" =>
                \A r \in 1..Len(_all_videos_details[i]) :
                    _all_videos_details[i][r].link
                        # _links_of_all_videos[i][caught[i][k].at]
        /\ (VideoSkipped(i) /\ HarvestOver(i)) =>
             /\ exc[i].type = "none"
             /\ link_idx[i] = Len(_links_of_all_videos[i])

\* C4: an error raised by a normalizer on malformed text is handled in the
\* step that called it and never propagates out of harvest_data.
C4_NormalizerErrorsAreContained ==
    \A i \in Tasks : exc[i].source # "normalizer"

\* C5: the expiry of an element wait fails only its step: no TimeoutException
\* propagates out of a step, and the harvest goes on.
C5_WaitExpiryIsNotFatal ==
    \A i \in Tasks : exc[i].type # "TimeoutException" /\ exc[i].source # "wait"

\* a header element was not found in _get_general_info of analyzer i
HeaderMissing(i) ==
    \E k \in 1..Len(caught[i]) :
        /\ caught[i][k].step = "_get_general_info"
        /\ caught[i][k].type = "NoSuchElementException"

\* C6: when a header element cannot be found, no profile entry is appended
\* (the list and the general frame built from it stay empty) and the harvest
\* goes on: link enumeration is next, and a harvest that then ends without
\* an exception has run every later step.
C6_MissingHeaderDoesNotBlock ==
    \A i \in Tasks :
        HeaderMissing(i) =>
            /\ _general_channel_info[i] = <<>>
            /\ SelfAttr(i, "_general_info_dataframe").kind = "DataFrame" =>
                  SelfAttr(i, "_general_info_dataframe").rows = <<>>
            /\ exc[i].step # "_get_general_info"
            /\ InSeq("_get_general_info", returned[i])
            /\ \/ pc[i] = "_find_all_videos_links"
               \/ InSeq("_find_all_videos_links", started[i])
            /\ (HarvestOver(i) /\ exc[i].type = "none") =>
                  /\ InSeq("_find_videos_info", returned[i])
                  /\ InSeq("_update_dataframes", returned[i])
                  /\ SelfAttr(i, "_videos_info_dataframe").kind = "DataFrame"

\* a harvest without a profile entry that still collected videos and built
\* the frames
C6_Witness ==
    \E i \in Tasks :
        /\ HeaderMissing(i)
        /\ HarvestOver(i) /\ exc[i].type = "none"
        /\ SelfAttr(i, "_general_info_dataframe").rows = <<>>
        /\ Len(SelfAttr(i, "_videos_info_dataframe").rows) = 2

\* the order of the steps as the documentation of harvest_data lists them
C7_Order ==
    <<"_open_url", "_access_youtube", "_get_general_info",
      "_find_all_videos_links", "_find_videos_info", "_update_dataframes",
      "_extract_years_of_activity">>

\* the steps harvest_data has called, without the closing of the driver
StepsCalled(i) ==
    SelectSeq(started[i], LAMBDA x : x # "driver.close")

DriverCloseCalls(i) ==
    Len(SelectSeq(started[i], LAMBDA x : x = "driver.close"))

\* C7 as stated: every harvest_data call runs each of the seven steps
\* exactly once, in the fixed order, and then closes the driver.
C7_EveryStepExactlyOnce ==
    \A i \in Tasks :
        HarvestOver(i) => started[i] = C7_Order \o <<"driver.close">>

\* C7, amended: the steps are called in the fixed order, each at most once,
\* a step only after the one before it has returned normally; the steps
\* after one that raises are skipped; the driver is closed exactly once,
\* after the last step called; a harvest_data that returns normally has run
\* each step exactly once.
C7_StepsInOrder ==
    \A i \in Tasks :
        /\ IsPrefix(StepsCalled(i), C7_Order)
        /\ IsPrefix(returned[i], StepsCalled(i))
        /\ Len(StepsCalled(i)) - Len(returned[i]) <= 1
        /\ DriverCloseCalls(i) <= 1
        /\ DriverCloseCalls(i) = 1 =>
              /\ started[i][Len(started[i])] = "driver.close"
              /\ returned[i] = C7_Order \/ exc[i].type # "none"
              /\ Len(StepsCalled(i)) > Len(returned[i]) =>
                    exc[i].step = started[i][Len(started[i]) - 1]
        /\ HarvestOver(i) => DriverCloseCalls(i) = 1
        /\ (HarvestOver(i) /\ exc[i].type = "none") =>
              started[i] = C7_Order \o <<"driver.close">>

\* one harvest that returned normally after all seven steps, the other cut
\* short by its third step
C7_Witness ==
    \E i, j \in Tasks :
        /\ HarvestOver(i) /\ exc[i].type = "none"
        /\ started[i] = C7_Order \o <<"driver.close">>
        /\ HarvestOver(j) /\ exc[j].step = "_get_general_info"
        /\ started[j] = <<"_open_url", "_access_youtube", "_get_general_info",
                          "driver.close">>

(***************************************************************************)
(* Properties of analyze_channels.                                         *)
(***************************************************************************)
\* C8: when either name is empty or None, analyze_channels raises
\* MissingChannelNamesError and nothing else happens: no task is submitted,
\* no analyzer constructed, no session opened, no page requested.
C8_MissingNamesFailFast ==
    (pivot_channel_name \in {NONE, ""} \/ targeted_channel_name \in {NONE, ""})
    =>  /\ main_pc \in {"start", "raised"}
        /\ main_pc = "raised" => main_exc = "MissingChannelNamesError"
        /\ \A i \in Tasks :
             /\ future[i] = "none"
             /\ pc[i] = "idle"
             /\ _channel_name[i] = NONE
             /\ driver[i] = [session |-> "none", page |-> ""]
             /\ started[i] = <<>>

\* the call with a pivot name and an empty targeted name has raised
C8_Witness ==
    /\ pivot_channel_name = "@a"
    /\ targeted_channel_name = ""
    /\ main_pc = "raised"
    /\ main_exc = "MissingChannelNamesError"

\* the three dataframe attributes
DataFrameAttrs ==
    {"_general_info_dataframe", "_videos_info_dataframe",
     "_videos_statistic_dataframe"}

\* everything analyzer i holds was read from pages of the channel task i
\* was given
OwnDataOnly(i) ==
    LET own == channel_names[i]
        general == SelfAttr(i, "_general_info_dataframe")
        videos == SelfAttr(i, "_videos_info_dataframe")
        statistic == SelfAttr(i, "_videos_statistic_dataframe")
    IN
    /\ \A k \in 1..Len(_general_channel_info[i]) :
          _general_channel_info[i][k].header_name = own
    /\ \A k \in 1..Len(_links_of_all_videos[i]) :
          ChannelOfLink(_links_of_all_videos[i][k]) = own
    /\ \A k \in 1..Len(_all_videos_details[i]) :
          ChannelOfLink(_all_videos_details[i][k].link) = own
    /\ general.kind = "DataFrame" =>
          \A k \in 1..Len(general.rows) : general.rows[k].header_name = own
    /\ videos.kind = "DataFrame" =>
          \A k \in 1..Len(videos.rows) : ChannelOfLink(videos.rows[k].link) = own
    /\ statistic.kind = "DataFrame" =>
          /\ videos.kind = "DataFrame"
          /\ statistic.count = Len(videos.rows)
          /\ statistic.sum = SumViews(videos.rows)
    /\ \A k \in 1..Len(years_of_activity[i]) :
          \E r \in 1..Len(_all_videos_details[i]) :
              Last4(_all_videos_details[i][r].date) = years_of_activity[i][k]

\* C9: under every interleaving of the two harvests each analyzer holds only
\* data of its own channel, the class-level dataframe attributes are never
\* written, and an analyzer that has not assigned a frame reads None, not
\* the other analyzer's frame.
C9_NoSharedState ==
    /\ \A f \in DataFrameAttrs : class_attrs[f].kind = "None"
    /\ \A i \in Tasks :
         /\ OwnDataOnly(i)
         /\ \A f \in DataFrameAttrs :
               instance_attrs[i][f].kind = "unset" => SelfAttr(i, f).kind = "None"

\* one analyzer has built its frames while the other, in the middle of its
\* video loop, has not
C9_Witness ==
    \E i, j \in Tasks :
        /\ SelfAttr(i, "_videos_info_dataframe").kind = "DataFrame"
        /\ Len(SelfAttr(i, "_videos_info_dataframe").rows) = 2
        /\ pc[j] = "for_link"
        /\ Len(_all_videos_details[j]) = 1
        /\ SelfAttr(j, "_videos_info_dataframe").kind = "None"

\* C10: analyze_channels returns only after both harvests are over and have
\* closed their sessions, and the pair it returns is (analyzer of the pivot
\* name, analyzer of the targeted name), whichever harvest finished first.
C10_ReturnsBothInOrder ==
    main_pc = "returned" =>
        /\ \A i \in Tasks :
             /\ future[i] = "finished"
             /\ pc[i] = "done"
             /\ driver[i].session = "closed"
        /\ Len(analyzer_objects) = 2
        /\ _channel_name[analyzer_objects[1]] = pivot_channel_name
        /\ _channel_name[analyzer_objects[2]] = targeted_channel_name

\* analyze_channels has returned after the targeted channel's harvest
\* finished first
C10_Witness ==
    /\ main_pc = "returned"
    /\ completion = <<2, 1>>
    /\ analyzer_objects = <<1, 2>>

\* C11: when one of the two harvests fails fatally the other is unaffected:
\* once analyze_channels is over, the snapshot of the harvest that ran all its
\* steps and finished has been delivered to the caller (analyze_channels has
\* returned, with that analyzer among the results) although the other failed.
C11_OtherHarvestUnaffected ==
    \A i, j \in Tasks :
        (/\ i # j
         /\ future[i] = "failed"
         /\ future[j] = "finished"
         /\ main_pc \in {"returned", "raised"}) =>
            /\ main_pc = "returned"
            /\ InSeq(j, analyzer_objects)

(***************************************************************************)
(* Properties of a harvested analyzer and of the handlers that use it.     *)
(***************************************************************************)
\* years is ascending without duplicates
Ascending(years) ==
    \A j, k \in 1..Len(years) : j < k => StrLess(years[j], years[k])

\* C12: in every state reached through harvest_data and the
\* videos_info_dataframe setter, years_of_activity of an analyzer whose
\* harvest is over is the ascending, duplicate-free list of the last four
\* characters of the dates of its current videos frame.
C12_YearsFollowVideos ==
    \A i \in Tasks :
        LET videos == SelfAttr(i, "_videos_info_dataframe") IN
        (HarvestOver(i) /\ videos.kind = "DataFrame") =>
            /\ SetOf(years_of_activity[i])
                  = {Last4(videos.rows[k].date) : k \in 1..Len(videos.rows)}
            /\ Ascending(years_of_activity[i])

\* C13: after the harvest a snapshot is read-only: no step of the handlers
\* that consume it (set_analyzer_objects with update_available_years and
\* find_common_years, the graph buttons, the export button) changes an
\* analyzer's frames, their row index, or its years_of_activity.
C13_SnapshotReadOnly ==
    [][(main_pc \in {"returned", "raised", "idle"}) =>
          (/\ instance_attrs' = instance_attrs
           /\ class_attrs' = class_attrs
           /\ years_of_activity' = years_of_activity)]_vars

\* C14: every workbook save_channel_details writes, the second and later
\* ones of an analyzer included, has one row per video record in its videos
\* sheet, numbered 1..n.
C14_RowsNumberedFromOne ==
    \A i \in Tasks : \A f \in 1..Len(excel[i]) :
        /\ excel[i][f].videos = Len(_all_videos_details[i])
        /\ excel[i][f].videos_index = [k \in 1..excel[i][f].videos |-> k]

\* C15: when a channel has no active year or the two channels have no year
\* in common, update_available_years with set_dropdown_menus completes: no
\* exception leaves set_analyzer_objects.
C15_EmptyYearsAreDisplayable ==
    LET yc == window._yc_analyze
        tc == window._tc_analyze
    IN (/\ main_pc = "idle"
        /\ yc # 0
        /\ tc # 0
        /\ \/ years_of_activity[yc] = <<>>
           \/ years_of_activity[tc] = <<>>
           \/ SetOf(years_of_activity[yc]) \cap SetOf(years_of_activity[tc]) = {})
       => win_exc.handler # "set_analyzer_objects"

(***************************************************************************)
(* Properties of the static methods.                                       *)
(***************************************************************************)
\* the digits s starts with
RECURSIVE LeadingDigits(_)
LeadingDigits(s) ==
    IF s = <<>> \/ ~IsDigit(Head(s)) THEN <<>>
    ELSE <<Head(s)>> \o LeadingDigits(Tail(s))

\* the digits of the text after its decimal point, none without a point
FractionDigits(text) ==
    LET whole == LeadingDigits(text)
        rest == SubSeq(text, Len(whole) + 1, Len(text))
    IN IF rest # <<>> /\ Head(rest) = "." THEN LeadingDigits(Tail(rest))
       ELSE <<>>

\* the rescaling rule: int(digits) * (U / 10^d) for a unit letter with
\* multiplier U and d digits after the point, the leading integer without
\* a unit letter
RescalingRule(text) ==
    LET digits == LeadingDigits(text) \o FractionDigits(text)
        d == Len(FractionDigits(text))
        U == IF HasChar(text, "K") THEN 1000
             ELSE IF HasChar(text, "M") THEN 1000000 ELSE 0
    IN IF U = 0 THEN DigitsValue(LeadingDigits(text))
       ELSE DigitsValue(digits) * (U \div Pow10(d))

\* C16: _convert_subs_or_videos follows the digit-count rescaling rule, so
\* "2.37K" gives 2370, "5.347M" gives 5347000, "100K" gives 100000 and "235"
\* gives 235.
C16_FollowsRescalingRule ==
    (call.fn = "_convert_subs_or_videos" /\ HasReturned) =>
        /\ result.ok
        /\ result.val = RescalingRule(call.args[1])
        /\ call.args[1] = <<"2", ".", "3", "7", "K">> => result.val = 2370
        /\ call.args[1] = <<"5", ".", "3", "4", "7", "M">> => result.val = 5347000
        /\ call.args[1] = <<"1", "0", "0", "K">> => result.val = 100000
        /\ call.args[1] = <<"2", "3", "5">> => result.val = 235

\* the twelve month names in calendar order
MonthNames ==
    <<"January", "February", "March", "April", "May", "June", "July",
      "August", "September", "October", "November", "December">>

\* the month a date in MM/DD/YYYY form names by its first two digits
MonthNamed(date) == MonthNames[DigitsValue(SubSeq(date, 1, 2))]

\* the sum of amounts[k] over the dates of the given year and month
RECURSIVE SumIn(_, _, _, _)
SumIn(amounts, dates, year, month) ==
    IF dates = <<>> THEN 0
    ELSE (IF Last4(Head(dates)) = year /\ MonthNamed(Head(dates)) = month
          THEN Head(amounts) ELSE 0)
         + SumIn(Tail(amounts), Tail(dates), year, month)

RECURSIVE SumSeq(_)
SumSeq(q) == IF q = <<>> THEN 0 ELSE Head(q) + SumSeq(Tail(q))

\* each date counted once
Ones(dates) == [k \in 1..Len(dates) |-> 1]

NoDuplicates(q) == \A j, k \in 1..Len(q) : q[j] = q[k] => j = k

\* histogram has one key per year of the dates, and its entry of every year
\* and month is the sum of amounts over the dates of that year and month
GroupsByYearAndMonth(histogram, amounts, dates) ==
    /\ SetOf(DictKeys(histogram)) = {Last4(dates[k]) : k \in 1..Len(dates)}
    /\ NoDuplicates(DictKeys(histogram))
    /\ \A y \in 1..Len(histogram) :
         LET year == histogram[y].key
             months == histogram[y].value
         IN /\ \A m \in 1..Len(months) :
                  months[m].value
                      = SumIn(amounts, dates, year, months[m].key)
            /\ SumSeq(DictValues(months))
                  = SumSeq([k \in 1..Len(dates) |->
                              IF Last4(dates[k]) = year THEN amounts[k] ELSE 0])

\* C17: for every non-empty sequence of dates in MM/DD/YYYY form,
\* _get_posting_per_year returns a histogram whose year keys are exactly the
\* 4-character suffixes of the dates, in which every video is counted once,
\* in the month its two-digit prefix names, so that the counts of a year sum
\* to the number of videos of that year.
C17_PostsGroupedByYearAndMonth ==
    (call.fn = "_get_posting_per_year" /\ HasReturned
        /\ call.args[1] # <<>>) =>
        /\ result.ok
        /\ GroupsByYearAndMonth(result.val, Ones(call.args[1]), call.args[1])

\* three videos: two of the same month, one of another year
C17_Witness ==
    /\ call.fn = "_get_posting_per_year"
    /\ HasReturned
    /\ Len(call.args[1]) = 3
    /\ result.ok
    /\ Len(result.val) = 2
    /\ \E y \in 1..Len(result.val) : DictGet(result.val[y].value, "January") = 2
    /\ \E y \in 1..Len(result.val) : DictGet(result.val[y].value, "December") = 1

\* C18: for every sequence of (date, views) records _get_views_per_year has
\* the year keys of _get_posting_per_year on the same dates, every entry is
\* the sum of the views of the videos of that year and month, and all the
\* entries together are the sum of all views.
C18_ViewsSummedByYearAndMonth ==
    (call.fn = "_get_views_per_year" /\ HasReturned) =>
        LET views == call.args[1]
            dates == call.args[2]
        IN /\ result.ok
           /\ SetOf(DictKeys(result.val))
                 = SetOf(DictKeys(_get_posting_per_year(dates).val))
           /\ GroupsByYearAndMonth(result.val, views, dates)
           /\ SumSeq([y \in 1..Len(result.val) |->
                        SumSeq(DictValues(result.val[y].value))])
                 = SumSeq(views)

\* three videos with different views, two of them of the same month
C18_Witness ==
    /\ call.fn = "_get_views_per_year"
    /\ HasReturned
    /\ call.args[1] = <<12, 3130, 12>>
    /\ result.ok
    /\ Len(result.val) = 2
    /\ \E y \in 1..Len(result.val) :
          DictGet(result.val[y].value, "January") = 3142

\* C19: every histogram of _get_posting_per_year and _get_views_per_year has,
\* for each year key, exactly the twelve month names as keys, in calendar
\* order, with 0 for every month without a video; an empty input gives a
\* histogram without year keys.
C19_TwelveMonthsPerYear ==
    (call.fn \in {"_get_posting_per_year", "_get_views_per_year"}
        /\ HasReturned) =>
        LET dates == call.args[Len(call.args)] IN
        /\ result.ok
        /\ dates = <<>> => result.val = <<>>
        /\ \A y \in 1..Len(result.val) :
             /\ DictKeys(result.val[y].value) = MonthNames
             /\ \A m \in 1..12 :
                  (\A k \in 1..Len(dates) :
                      ~(Last4(dates[k]) = result.val[y].key
                        /\ MonthNamed(dates[k]) = MonthNames[m]))
                  => result.val[y].value[m].value = 0

\* a views histogram of two years, one of them with a single video
C19_Witness ==
    /\ call.fn = "_get_views_per_year"
    /\ HasReturned
    /\ result.ok
    /\ Len(result.val) = 2
    /\ \E y \in 1..Len(result.val) :
          /\ DictGet(result.val[y].value, "November") = 3130
          /\ SumSeq(DictValues(result.val[y].value)) = 3130
          /\ DictKeys(result.val[y].value) = MonthNames

\* years is in ascending order of the years' numbers, each once
AscendingYears(years) ==
    \A j, k \in 1..Len(years) :
        j < k => DigitsValue(years[j]) < DigitsValue(years[k])

\* C20: find_common_years(A, B) is the list of the year labels contained in
\* both A and B, each once, in ascending order; so it equals
\* find_common_years(B, A), and find_common_years(A, A) is the sorted,
\* duplicate-free A.
C20_CommonYears ==
    (call.fn = "find_common_years" /\ HasReturned) =>
        LET A == call.args[1]
            B == call.args[2]
        IN /\ result.ok
           /\ SetOf(result.val) = SetOf(A) \cap SetOf(B)
           /\ AscendingYears(result.val)
           /\ result.val = find_common_years(B, A)
           /\ A = B => (SetOf(result.val) = SetOf(A)
                         /\ AscendingYears(result.val))

\* two unsorted lists with a repeated year have two years in common
C20_Witness ==
    /\ call.fn = "find_common_years"
    /\ HasReturned
    /\ call.args[1] = << <<"2", "0", "2", "2">>, <<"2", "0", "2", "0">>,
                         <<"2", "0", "2", "2">> >>
    /\ call.args[2] = << <<"2", "0", "2", "2">>, <<"2", "0", "2", "1">>,
                         <<"2", "0", "2", "0">> >>
    /\ result.val = << <<"2", "0", "2", "0">>, <<"2", "0", "2", "2">> >>

\* MM/DD/YYYY, every field padded with zeros
PaddedDate(dt) ==
    ZeroPad(dt.month, 2) \o <<"/">> \o ZeroPad(dt.day, 2) \o <<"/">>
        \o ZeroPad(dt.year, 4)

\* the call converts the text of dt, with any of the prefixes, to the padded
\* date
ConvertsDate(dt) ==
    \A prefix \in DatePrefixes :
        (call.fn = "_convert_date" /\ HasReturned
            /\ call.args[1] = DateText(prefix, dt)) =>
            result = Ok(PaddedDate(dt))

C22_FormatViewsInverts ==
    \A n \in ViewCounts :
        (call.fn = "_format_views" /\ HasReturned
            /\ call.args[1] = ViewsText(n)) =>
            result = Ok(n)

\* a count with two separators
C22_Witness ==
    /\ call.fn = "_format_views"
    /\ HasReturned
    /\ call.args[1] = <<"1", ",", "2", "3", "4", ",", "5", "6", "7">> \o ViewsSuffix
    /\ result = Ok(1234567)

\* the digits of a text, its decimal point and unit letter left out
DigitsOf(text) == SelectSeq(text, IsDigit)

\* C27: _convert_subs_or_videos("2.37K") returns 237000 and
\* _convert_subs_or_videos("5.347M") returns 5347000; a text with the suffix
\* K and n digits, 1 <= n <= 6, gives int(digits) * 10^(6 - n), a text with
\* the suffix M and n digits, 1 <= n <= 7, gives int(digits) * 10^(7 - n).
C27_ScalesByDigitCount ==
    (call.fn = "_convert_subs_or_videos" /\ HasReturned) =>
        LET text == call.args[1]
            n == Len(DigitsOf(text))
        IN /\ text = <<"2", ".", "3", "7", "K">> => result = Ok(237000)
           /\ text = <<"5", ".", "3", "4", "7", "M">> => result = Ok(5347000)
           /\ (text[Len(text)] = "K" /\ n \in 1..6) =>
                 result = Ok(DigitsValue(DigitsOf(text)) * Pow10(6 - n))
           /\ (text[Len(text)] = "M" /\ n \in 1..7) =>
                 result = Ok(DigitsValue(DigitsOf(text)) * Pow10(7 - n))

\* the text of the repository's test of the K branch
C27_Witness ==
    /\ call.fn = "_convert_subs_or_videos"
    /\ HasReturned
    /\ call.args[1] = <<"2", ".", "3", "7", "K">>
    /\ result = Ok(237000)

(***************************************************************************)
(* Properties of the properties of ChannelAnalyzer.                        *)
(***************************************************************************)
DataFrameProperties == PropertyNames \ {"channel_name"}

\* C23: reading general_info_dataframe, videos_info_dataframe or
\* videos_statistic_dataframe raises DataFrameEmpty whenever that frame has
\* not yet been assigned on the analyzer, and otherwise returns a frame equal
\* to the stored one; reading channel_name raises ChannelIsNone exactly when
\* the stored name is None.
C23_GettersGuardMissingValues ==
    (call.fn = "get" /\ HasReturned) =>
        LET name == call.args[1] IN
        IF name = "channel_name"
        THEN /\ (result = Raise("ChannelIsNone"))
                    <=> (call.at._channel_name = NONE)
             /\ call.at._channel_name # NONE
                    => result = Ok(call.at._channel_name)
        ELSE IF call.at.frames["_" \o name].kind \in {"unset", "None"}
        THEN result = Raise("DataFrameEmpty")
        ELSE result = Ok(call.at.frames["_" \o name])

\* the statistics are read after a harvest that found no video: they are
\* missing, while the general frame of the same harvest is stored
C23_Witness ==
    /\ call.fn = "get"
    /\ HasReturned
    /\ pc[Client] = "done"
    /\ InSeq("_update_dataframes", returned[Client])
    /\ call.args[1] = "videos_statistic_dataframe"
    /\ call.at.frames._general_info_dataframe.kind = "DataFrame"
    /\ result = Raise("DataFrameEmpty")

\* everything an analyzer holds apart from the attribute behind one property
OtherFieldsUnchanged(name) ==
    /\ name # "channel_name" => _channel_name' = _channel_name
    /\ \A other \in DataFrameProperties \ {name} :
          instance_attrs'[Client]["_" \o other]
              = instance_attrs[Client]["_" \o other]
    /\ UNCHANGED <<url, listVars, years_of_activity, class_attrs, driver>>

\* C24: assigning a non-DataFrame value to one of the three dataframe
\* properties raises DataFrameAssignment and assigning None to channel_name
\* raises ChannelIsNone, both leaving the stored value unchanged; a valid
\* assignment replaces exactly that one field and no other.
C24_SettersValidate ==
    [][(call' # call /\ call'.fn = "set") =>
        (LET name == call'.args[1]
             value == call'.args[2]
         IN /\ OtherFieldsUnchanged(name)
            /\ IF name = "channel_name"
               THEN IF value = NONE
                    THEN /\ result' = Raise("ChannelIsNone")
                         /\ _channel_name' = _channel_name
                    ELSE /\ result'.ok
                         /\ _channel_name'[Client] = value
               ELSE IF value.kind # "DataFrame"
                    THEN /\ result' = Raise("DataFrameAssignment")
                         /\ instance_attrs' = instance_attrs
                    ELSE /\ result'.ok
                         /\ instance_attrs'[Client]["_" \o name] = value)]_vars

\* None was refused for a frame that had been harvested, which is still
\* stored
C24_Witness ==
    /\ call.fn = "set"
    /\ call.args = <<"videos_info_dataframe", None>>
    /\ result = Raise("DataFrameAssignment")
    /\ call.at.frames._videos_info_dataframe.kind = "DataFrame"
    /\ instance_attrs[Client] = call.at.frames

\* C30: in every state reachable through the constructor and the
\* channel_name setter, url = 'https://www.youtube.com/' + channel_name, so
\* that the profile page _open_url opens and the videos page
\* _find_all_videos_links opens belong to the same channel.
C30_UrlFollowsChannelName ==
    Exists(Client) =>
        /\ url[Client] = SITE \o "/" \o _channel_name[Client]
        /\ \A k \in 1..Len(_general_channel_info[Client]) :
              \A j \in 1..Len(_links_of_all_videos[Client]) :
                 ChannelOfLink(_links_of_all_videos[Client][j])
                     = _general_channel_info[Client][k].header_name

\* C26: in every reachable state in which the videos frame of an analyzer is
\* assigned, its statistics frame is the descriptive summary of that same
\* videos frame: never missing and never the summary of an older videos
\* frame, also after an _update_dataframes that failed part-way and after
\* assignments through the setters.
C26_StatisticsFollowVideos ==
    \A i \in Tasks :
        LET videos == SelfAttr(i, "_videos_info_dataframe")
            statistic == SelfAttr(i, "_videos_statistic_dataframe")
        IN videos.kind = "DataFrame" =>
              /\ statistic.kind = "DataFrame"
              /\ describe(videos) = Ok(statistic)

(***************************************************************************)
(* Properties of set_analyzer_objects and of the scroll loop.              *)
(***************************************************************************)
\* C29: when analyze_channels rejects the input with
\* MissingChannelNamesError, set_analyzer_objects shows the error and does
\* nothing more: no other exception leaves it, update_available_years is not
\* executed, and the stored analyzers, year lists and dropdown selections
\* are as they were.
C29_MissingNamesOnlyShown ==
    (main_pc = "idle" /\ main_exc = "MissingChannelNamesError") =>
        /\ error_message = " Channels Fill Error"
        /\ win_exc.type = "none"
        /\ window._yc_analyze = 0 /\ window._tc_analyze = 0
        /\ \A m \in MenuNames : menus[m].var = DISABLED_OPTION_MESSAGE
        /\ window.yc_posting_years = DISABLED_OPTION_MESSAGE
        /\ window.common_posting_years = DISABLED_OPTION_MESSAGE

\* C25: link enumeration is idempotent: when _find_all_videos_links is run
\* again on the page it has already enumerated, the link list afterwards is
\* the same as before, one link per discovered video in discovery order (and
\* not the list followed by itself).
C25_LinkEnumerationIdempotent ==
    \A i \in Tasks :
        (/\ Times("_find_all_videos_links", returned[i]) = 2
         /\ _channel_name[i] \in Channels) =>
            \A n \in 1..MaxLinks :
                LET discovered == LinksOfPage(VideosUrl(_channel_name[i]), n)
                IN _links_of_all_videos[i] # discovered \o discovered

\* a pass of the loop of _scroll that reaches the comparison of the heights
\* (no exception leaves it)
ScrollPass(i) == pc[i] = "_scroll" /\ pc'[i] \in {"_scroll", "find_elements"}

\* the loop of _scroll is left by its break statement
ScrollBreaks(i) == pc[i] = "_scroll" /\ pc'[i] = "find_elements"

\* C28: _scroll stops exactly when one scroll to the bottom leaves the page
\* height unchanged, and never while the last scroll still changed it; as
\* the height grows only finitely often, the scroll loop, the link
\* enumeration and the whole harvest eventually terminate.
C28_ScrollStopsAndHarvestEnds ==
    /\ [][\A i \in Tasks :
            ScrollPass(i) =>
                (ScrollBreaks(i) <=> height'[i] = height[i])]_vars
    /\ \A i \in Tasks : (pc[i] = "_scroll") ~> (pc[i] # "_scroll")
    /\ \A i \in Tasks :
          (pc[i] = "_find_all_videos_links")
              ~> (pc[i] \in {After("_find_all_videos_links"), "finally"})
    /\ \A i \in Tasks : Harvesting(i) ~> (pc[i] = "done")

\* a harvest that is over after its scroll loop stopped at the full height
\* and every link of the page was collected
C28_Witness ==
    /\ pc[Client] = "done"
    /\ InSeq("_find_all_videos_links", returned[Client])
    /\ Len(_links_of_all_videos[Client]) >= MaxLinks

====
